---- MODULE Spec2Model ----
(***************************************************************************)
(* Job orchestrator of news_SIGNALS (src/app/scheduler.py) and the two     *)
(* routes that drive it (src/app/routes.py), as a state machine.           *)
(*                                                                         *)
(* The module-level globals `scheduler` and `current_interval` are the     *)
(* shared state.  `scheduler` holds an APScheduler 3.x BackgroundScheduler *)
(* built with its defaults: a memory job store that refuses a second job   *)
(* under an id already stored (ConflictingIdError), jobs added before      *)
(* start() kept in a pending list, max_instances = 1 per job id, coalesce  *)
(* on, and a job-store lock that makes add_job, reschedule_job and one     *)
(* pass of the scheduler loop atomic with respect to each other.  Python   *)
(* threads may be switched between any two statements of scheduler.py, so  *)
(* every statement that touches shared state is one step of its thread.    *)
(*                                                                         *)
(* Job times are in minutes since midnight (`clock`); a call of one of the  *)
(* three operations takes less than a minute.  datetime.now().timestamp()  *)
(* reads a finer value, `clock` and `sub`: two reads are equal unless the  *)
(* reading changed in between.                                             *)
(***************************************************************************)
EXTENDS Integers, Sequences, FiniteSets, TLC

(* ------------------------------ bounds -------------------------------- *)
\* The process is started at minute StartClock of the day (05:55).
StartClock == 355
\* The clock is observed for Horizon minutes after the start.
Horizon == 30
\* create_app is run at most MaxStarts times by a thread.
MaxStarts == 2
\* Each request thread serves at most MaxCalls requests.
MaxCalls == 1
\* Distinct values datetime.now().timestamp() takes within one minute.
Readings == 2

\* A corpus read for a report has at most MaxRows rows.
MaxRows == 3
MaxGazetteRows == 6
MaxRefresh == 2
MaxRanked == 6
MaxEventRows == 6
MaxThreats == 2

MaxClock == StartClock + Horizon

(* ------------------------- program constants -------------------------- *)
\* current_interval = 15
DefaultInterval == 15
\* interval >= 5 in api_settings
MinInterval == 5
\* trigger="cron", hour=6, minute=0 : minute of the day, and the cron period
SixAM == 360
DayMinutes == 1440
\* BackgroundScheduler() job default max_instances
MaxInstances == 1

\* `scheduler = None`
None == 0
\* job.next_run_time of a job that is still pending
NoTime == -1

Starters   == {"s1", "s2"}
Refreshers == {"r1", "r2"}
Updaters   == {"u1", "u2"}
\* threads that serve GET /api/settings
Getters    == {"g1"}
Threads    == Starters \cup Refreshers \cup Updaters \cup Getters
\* One BackgroundScheduler can be built by each thread that runs line 17.
Insts      == 1..Cardinality(Starters)
\* Values of the "interval" field of a POST /api/settings body.
Minutes    == {3, 5, 10}

PipelineId      == <<"pipeline_job", 0>>
MarketId        == <<"market_data_job", 0>>
DailyId         == <<"daily_email_job", 0>>
StartupId       == <<"startup_job", 0>>
StartupMarketId == <<"startup_market_job", 0>>
\* f'manual_refresh_{datetime.now().timestamp()}'
ManualId(ts)       == <<"manual_refresh", ts>>
ManualMarketId(ts) == <<"manual_market_refresh", ts>>

RecurringIds == {PipelineId, MarketId, DailyId}
FixedIds     == RecurringIds \cup {StartupId, StartupMarketId}
NoJob        == <<"", 0>>
IntervalIds  == {PipelineId, MarketId}

VARIABLES
  scheduler,         \* the global: None or a BackgroundScheduler instance
  current_interval,  \* the global
  nInst,             \* BackgroundScheduler instances built so far
  state,             \* per instance: "stopped" | "running"
  pending,           \* per instance: _pending_jobs, a sequence of <<id, job>>
  jobs,              \* per instance: the job store, id -> job
  instances,         \* per instance: the executor's running count, id -> n
  clock,             \* datetime.now(), in minutes
  sub,               \* the clock reading within the minute
  pc,                \* per thread: the line it is about to run
  arg,               \* per updater: the interval of its request
  result,            \* per thread: how its last call ended
  calls,             \* per thread: calls made
  sawRunning,        \* per refresher/updater: the running test of its last call
  nadded,            \* per refresher: add_job calls that succeeded in its last call
  added,             \* id -> times a job was stored under it (the five fixed ids)
  owed,              \* one-off id -> jobs stored under it minus jobs handed to the executor
  skipped,           \* ids whose firing was skipped (max instances reached)
  lastFailed,        \* the id whose action raised last, or NoJob
  data_file,         \* final_data.csv as a report call finds it
  df,                \* the rows pd.read_csv(data_file) returns
  request,           \* the arguments of the report call
  gazettes,          \* what scrape_recent_gazettes() returns
  fresh,             \* what scrape_market_highlights() returns
  response,          \* what the report call returned
  inodes,            \* the files on disk: inode -> chunks written
  path,              \* the inode final_data.csv names, or NoFile
  writer,            \* the corpus refresh writing the file
  readers            \* per report thread: its pd.read_csv in progress

\* the orchestrator
schedVars == <<scheduler, current_interval, nInst, state, pending, jobs, instances,
               clock, sub, pc, arg, result, calls, sawRunning, nadded, added, owed,
               skipped, lastFailed>>
\* a report call
reportVars == <<data_file, df, request, gazettes, fresh, response>>
\* the corpus file
storeVars == <<inodes, path, writer, readers>>

vars == <<schedVars, reportVars, storeVars>>

\* datetime.now().timestamp()
timestamp == clock * Readings + sub

EmptyFcn == [x \in {} |-> 0]
Count(f, id) == IF id \in DOMAIN f THEN f[id] ELSE 0
Inc(f, id) == [x \in DOMAIN f \cup {id} |-> Count(f, x) + (IF x = id THEN 1 ELSE 0)]
Put(f, id, v) == [x \in DOMAIN f \cup {id} |-> IF x = id THEN v ELSE f[x]]
Drop(f, S) == [x \in DOMAIN f \ S |-> f[x]]
\* f + d at id, an entry that becomes 0 dropped
Bump(f, id, d) ==
  IF Count(f, id) + d = 0 THEN Drop(f, {id}) ELSE Put(f, id, Count(f, id) + d)

\* the history of a job stored under id
Stored(cnt, id, job) ==
  [added |-> IF id \in FixedIds THEN [cnt.added EXCEPT ![id] = @ + 1] ELSE cnt.added,
   owed  |-> IF job.trigger = "date" THEN Bump(cnt.owed, id, 1) ELSE cnt.owed]

(* ----------------------------- triggers ------------------------------- *)
\* IntervalTrigger(minutes=m) built at `now`: start_date = now + interval
\* faulty variant: the period is taken in the wrong unit
IntervalJob_WrongUnit(func, m, now) ==
  [trigger |-> "interval", period |-> m * 60, base |-> now + m * 60, next_run |-> NoTime, func |-> func]
IntervalJob(func, m, now) ==
  [trigger |-> "interval", period |-> m, base |-> now + m, next_run |-> NoTime, func |-> func]
\* CronTrigger(hour=6, minute=0)
CronJob(func) ==
  [trigger |-> "cron", period |-> DayMinutes, base |-> SixAM, next_run |-> NoTime, func |-> func]
\* DateTrigger() : run_date = now
DateJob(func, now) ==
  [trigger |-> "date", period |-> 0, base |-> now, next_run |-> NoTime, func |-> func]

\* least base + k*period (k >= 0) that is >= t
CeilFrom(base, period, t) ==
  IF base >= t THEN base ELSE base + (((t - base) + period - 1) \div period) * period

\* trigger.get_next_fire_time(None, now)
FirstFire(job, now) ==
  IF job.trigger = "date" THEN job.base ELSE CeilFrom(job.base, job.period, now)

\* the last run time of a due job that is <= now (job._get_run_times, coalesced)
LastRunTime(job, now) ==
  IF job.trigger = "date" THEN job.next_run
  ELSE job.next_run + ((now - job.next_run) \div job.period) * job.period

\* trigger.get_next_fire_time(run_times[-1], now); NoTime when the trigger is spent
NextFire(job, now) ==
  IF job.trigger = "date" THEN NoTime ELSE LastRunTime(job, now) + job.period

(* --------------------------- the scheduler ---------------------------- *)
\* MemoryJobStore.add_job through BaseScheduler._real_add_job
real_add_job(store, id, job, now) ==
  IF id \in DOMAIN store
    THEN [ok |-> FALSE, jobs |-> store]
    ELSE [ok |-> TRUE, jobs |-> Put(store, id, [job EXCEPT !.next_run = FirstFire(job, now)])]

\* BaseScheduler.add_job on instance i
add_job(i, id, job) ==
  IF state[i] = "stopped"
    THEN [ok |-> TRUE, stored |-> FALSE, pending |-> Append(pending[i], <<id, job>>), jobs |-> jobs[i]]
    ELSE LET r == real_add_job(jobs[i], id, job, clock) IN
         [ok |-> r.ok, stored |-> r.ok, pending |-> pending[i], jobs |-> r.jobs]

\* BaseScheduler.start: the pending jobs are stored in order; the first id that
\* is already stored raises and leaves the scheduler stopped.
RECURSIVE add_pending(_, _, _)
add_pending(store, seq, cnt) ==
  IF seq = <<>> THEN [ok |-> TRUE, jobs |-> store, cnt |-> cnt]
  ELSE LET r == real_add_job(store, seq[1][1], seq[1][2], clock) IN
       IF r.ok THEN add_pending(r.jobs, Tail(seq), Stored(cnt, seq[1][1], seq[1][2]))
       ELSE [ok |-> FALSE, jobs |-> store, cnt |-> cnt]

running(i) == i # None /\ state[i] = "running"

(* ------------------------------- Init --------------------------------- *)
\* no report call is made
NoRequest == [sector |-> "", investment |-> "", location |-> "", description |-> <<>>]
NoResponse == [kind |-> "none"]
ReportsIdle ==
  /\ data_file = "absent"
  /\ df = <<>>
  /\ request = NoRequest
  /\ gazettes = <<>>
  /\ fresh = <<>>
  /\ response = NoResponse

\* the corpus file is left alone
NoFile == 0
StoreIdle ==
  /\ inodes = <<>>
  /\ path = NoFile
  /\ writer = [pc |-> "idle"]
  /\ readers = <<>>

\* scheduler.py lines 11-12, before start_scheduler
SchedulerInit ==
  /\ scheduler = None
  /\ current_interval = DefaultInterval
  /\ nInst = 0
  /\ state = [i \in Insts |-> "stopped"]
  /\ pending = [i \in Insts |-> <<>>]
  /\ jobs = [i \in Insts |-> EmptyFcn]
  /\ instances = [i \in Insts |-> EmptyFcn]
  /\ clock = StartClock
  /\ sub = 0
  /\ pc = [t \in Threads |-> "idle"]
  /\ arg = [t \in Updaters |-> 0]
  /\ result = [t \in Threads |-> "none"]
  /\ calls = [t \in Threads |-> 0]
  /\ sawRunning = [t \in Refreshers \cup Updaters |-> FALSE]
  /\ nadded = [t \in Refreshers |-> 0]
  /\ added = [id \in FixedIds |-> 0]
  /\ owed = EmptyFcn
  /\ skipped = {}
  /\ lastFailed = NoJob

Init == SchedulerInit /\ ReportsIdle /\ StoreIdle

(* --------------------------- start_scheduler -------------------------- *)
History == [added |-> added, owed |-> owed]

\* One scheduler.add_job(...) statement of thread t: on the instance the global
\* names now; ConflictingIdError leaves the function at that statement.
AddJobStmt(t, id, job, next, done) ==
  LET r == add_job(scheduler, id, job) IN
  /\ pending' = [pending EXCEPT ![scheduler] = r.pending]
  /\ jobs' = [jobs EXCEPT ![scheduler] = r.jobs]
  /\ added' = IF r.stored THEN Stored(History, id, job).added ELSE added
  /\ owed' = IF r.stored THEN Stored(History, id, job).owed ELSE owed
  /\ pc' = [pc EXCEPT ![t] = IF r.ok THEN next ELSE "idle"]
  /\ result' = [result EXCEPT ![t] = IF r.ok THEN done ELSE "ConflictingIdError"]

\* line 16: if scheduler is None
StartCall(t) ==
  /\ pc[t] = "idle"
  /\ calls[t] < MaxStarts
  /\ calls' = [calls EXCEPT ![t] = @ + 1]
  /\ pc' = [pc EXCEPT ![t] = IF scheduler = None THEN "l17" ELSE "idle"]
  /\ result' = [result EXCEPT ![t] = IF scheduler = None THEN "none" ELSE "noop"]
  /\ UNCHANGED <<reportVars, storeVars, scheduler, current_interval, nInst, state, pending, jobs, instances,
                 clock, sub, arg, sawRunning, nadded, added, owed, skipped, lastFailed>>

\* line 17: scheduler = BackgroundScheduler()
StartL17(t) ==
  /\ pc[t] = "l17"
  /\ nInst' = nInst + 1
  /\ scheduler' = nInst + 1
  /\ pc' = [pc EXCEPT ![t] = "l19"]
  /\ UNCHANGED <<reportVars, storeVars, current_interval, state, pending, jobs, instances, clock, sub, arg, result,
                 calls, sawRunning, nadded, added, owed, skipped, lastFailed>>

\* line 19: add_job(run_pipeline, "interval", minutes=current_interval, id='pipeline_job')
StartL19(t) ==
  /\ pc[t] = "l19"
  /\ AddJobStmt(t, PipelineId, IntervalJob("run_pipeline", current_interval, clock), "l22", result[t])
  /\ UNCHANGED <<reportVars, storeVars, scheduler, current_interval, nInst, state, instances, clock, sub, arg,
                 calls, sawRunning, nadded, skipped, lastFailed>>

\* line 22: add_job(update_market_data, "interval", minutes=current_interval, id='market_data_job')
StartL22(t) ==
  /\ pc[t] = "l22"
  /\ AddJobStmt(t, MarketId, IntervalJob("update_market_data", current_interval, clock), "l25", result[t])
  /\ UNCHANGED <<reportVars, storeVars, scheduler, current_interval, nInst, state, instances, clock, sub, arg,
                 calls, sawRunning, nadded, skipped, lastFailed>>

\* line 25: add_job(send_daily_reports, "cron", hour=6, minute=0, id='daily_email_job')
StartL25(t) ==
  /\ pc[t] = "l25"
  /\ AddJobStmt(t, DailyId, CronJob("send_daily_reports"), "l27", result[t])
  /\ UNCHANGED <<reportVars, storeVars, scheduler, current_interval, nInst, state, instances, clock, sub, arg,
                 calls, sawRunning, nadded, skipped, lastFailed>>

\* line 27: scheduler.start(); SchedulerAlreadyRunningError when it runs already
StartL27(t) ==
  /\ pc[t] = "l27"
  /\ LET i == scheduler
         r == add_pending(jobs[i], pending[i], History) IN
     IF state[i] # "stopped"
       THEN /\ pc' = [pc EXCEPT ![t] = "idle"]
            /\ result' = [result EXCEPT ![t] = "SchedulerAlreadyRunningError"]
            /\ UNCHANGED <<state, pending, jobs, added, owed>>
       ELSE /\ jobs' = [jobs EXCEPT ![i] = r.jobs]
            /\ added' = r.cnt.added
            /\ owed' = r.cnt.owed
            /\ state' = [state EXCEPT ![i] = IF r.ok THEN "running" ELSE "stopped"]
            /\ pending' = [pending EXCEPT ![i] = IF r.ok THEN <<>> ELSE @]
            /\ pc' = [pc EXCEPT ![t] = IF r.ok THEN "l35" ELSE "idle"]
            /\ result' = [result EXCEPT ![t] = IF r.ok THEN @ ELSE "ConflictingIdError"]
  /\ UNCHANGED <<reportVars, storeVars, scheduler, current_interval, nInst, instances, clock, sub, arg, calls,
                 sawRunning, nadded, skipped, lastFailed>>

\* line 35: add_job(run_pipeline, "date", id='startup_job')
StartL35(t) ==
  /\ pc[t] = "l35"
  /\ AddJobStmt(t, StartupId, DateJob("run_pipeline", clock), "l36", result[t])
  /\ UNCHANGED <<reportVars, storeVars, scheduler, current_interval, nInst, state, instances, clock, sub, arg,
                 calls, sawRunning, nadded, skipped, lastFailed>>

\* line 36: add_job(update_market_data, "date", id='startup_market_job'); then
\* line 39 registers the exit hook and the call returns
StartL36(t) ==
  /\ pc[t] = "l36"
  /\ AddJobStmt(t, StartupMarketId, DateJob("update_market_data", clock), "idle", "started")
  /\ UNCHANGED <<reportVars, storeVars, scheduler, current_interval, nInst, state, instances, clock, sub, arg,
                 calls, sawRunning, nadded, skipped, lastFailed>>

start_scheduler(t) ==
  \/ StartCall(t) \/ StartL17(t) \/ StartL19(t) \/ StartL22(t) \/ StartL25(t)
  \/ StartL27(t) \/ StartL35(t) \/ StartL36(t)

(* ----------------------------- refresh_now ---------------------------- *)
\* line 43: if scheduler and scheduler.running
RefreshCall(t) ==
  /\ pc[t] = "idle"
  /\ calls[t] < MaxCalls
  /\ calls' = [calls EXCEPT ![t] = @ + 1]
  /\ sawRunning' = [sawRunning EXCEPT ![t] = running(scheduler)]
  /\ nadded' = [nadded EXCEPT ![t] = 0]
  /\ pc' = [pc EXCEPT ![t] = IF running(scheduler) THEN "l44" ELSE "idle"]
  /\ result' = [result EXCEPT ![t] = IF running(scheduler) THEN "none" ELSE "False"]
  /\ UNCHANGED <<reportVars, storeVars, scheduler, current_interval, nInst, state, pending, jobs, instances,
                 clock, sub, arg, added, owed, skipped, lastFailed>>

\* line 44: add_job(run_pipeline, "date", id=f'manual_refresh_{datetime.now().timestamp()}')
RefreshL44(t) ==
  /\ pc[t] = "l44"
  /\ AddJobStmt(t, ManualId(timestamp), DateJob("run_pipeline", clock), "l45", result[t])
  /\ nadded' = [nadded EXCEPT ![t] = IF add_job(scheduler, ManualId(timestamp),
                                            DateJob("run_pipeline", clock)).ok
                                       THEN @ + 1 ELSE @]
  /\ UNCHANGED <<reportVars, storeVars, scheduler, current_interval, nInst, state, instances, clock, sub, arg,
                 calls, sawRunning, skipped, lastFailed>>

\* line 45: add_job(update_market_data, "date",
\*                  id=f'manual_market_refresh_{datetime.now().timestamp()}'); return True
RefreshL45(t) ==
  /\ pc[t] = "l45"
  /\ AddJobStmt(t, ManualMarketId(timestamp), DateJob("update_market_data", clock), "idle", "True")
  /\ nadded' = [nadded EXCEPT ![t] = IF add_job(scheduler, ManualMarketId(timestamp),
                                            DateJob("update_market_data", clock)).ok
                                       THEN @ + 1 ELSE @]
  /\ UNCHANGED <<reportVars, storeVars, scheduler, current_interval, nInst, state, instances, clock, sub, arg,
                 calls, sawRunning, skipped, lastFailed>>

refresh_now(t) == RefreshCall(t) \/ RefreshL44(t) \/ RefreshL45(t)

(* ------------------------ api_settings, update_interval --------------- *)
\* routes.py line 125: interval and isinstance(interval, int) and interval >= 5
\* faulty variant: no lower bound on the interval
ValidInterval_NoMinimum(m) == m # 0
ValidInterval(m) == m # 0 /\ m >= MinInterval

\* BaseScheduler.reschedule_job(id, trigger='interval', minutes=m) on a running
\* scheduler: the stored job gets the new trigger and its first fire time;
\* JobLookupError when no job is stored under the id.
\* faulty variant: the job is removed and added again under a fresh id
reschedule_job_AsNewJob(store, id, m, now) ==
  IF id \notin DOMAIN store
    THEN [ok |-> FALSE, jobs |-> store]
    ELSE [ok |-> TRUE,
          jobs |-> Put(Drop(store, {id}), <<id[1], m>>,
                       [store[id] EXCEPT !.trigger = "interval", !.period = m, !.base = now + m,
                                         !.next_run = CeilFrom(now + m, m, now)])]
reschedule_job(store, id, m, now) ==
  IF id \notin DOMAIN store
    THEN [ok |-> FALSE, jobs |-> store]
    ELSE [ok |-> TRUE,
          jobs |-> [store EXCEPT ![id] =
                      [@ EXCEPT !.trigger = "interval", !.period = m, !.base = now + m,
                                !.next_run = CeilFrom(now + m, m, now)]]]

\* POST /api/settings with body {"interval": m}: routes.py lines 123-130, then
\* scheduler.py line 51: if scheduler and scheduler.running
SettingsCall(t, m) ==
  /\ pc[t] = "idle"
  /\ calls[t] < MaxCalls
  /\ calls' = [calls EXCEPT ![t] = @ + 1]
  /\ arg' = [arg EXCEPT ![t] = m]
  /\ sawRunning' = [sawRunning EXCEPT ![t] = running(scheduler)]
  /\ pc' = [pc EXCEPT ![t] = IF ValidInterval(m) /\ running(scheduler) THEN "l53" ELSE "idle"]
  /\ result' = [result EXCEPT ![t] = IF ~ValidInterval(m) THEN "Invalid interval"
                                     ELSE IF running(scheduler) THEN "none" ELSE "False"]
  /\ UNCHANGED <<reportVars, storeVars, scheduler, current_interval, nInst, state, pending, jobs, instances,
                 clock, sub, nadded, added, owed, skipped, lastFailed>>

\* One scheduler.reschedule_job(...) statement; the except clause of line 58
\* turns JobLookupError into `return False`.
RescheduleStmt(t, id, next) ==
  LET r == reschedule_job(jobs[scheduler], id, arg[t], clock) IN
  /\ jobs' = [jobs EXCEPT ![scheduler] = r.jobs]
  /\ pc' = [pc EXCEPT ![t] = IF r.ok THEN next ELSE "idle"]
  /\ result' = [result EXCEPT ![t] = IF r.ok THEN @ ELSE "False"]

\* line 53: scheduler.reschedule_job('pipeline_job', trigger='interval', minutes=minutes)
UpdateL53(t) ==
  /\ pc[t] = "l53"
  /\ RescheduleStmt(t, PipelineId, "l54")
  /\ UNCHANGED <<reportVars, storeVars, scheduler, current_interval, nInst, state, pending, instances, clock, sub,
                 arg, calls, sawRunning, nadded, added, owed, skipped, lastFailed>>

\* line 54: scheduler.reschedule_job('market_data_job', trigger='interval', minutes=minutes)
UpdateL54(t) ==
  /\ pc[t] = "l54"
  /\ RescheduleStmt(t, MarketId, "l55")
  /\ UNCHANGED <<reportVars, storeVars, scheduler, current_interval, nInst, state, pending, instances, clock, sub,
                 arg, calls, sawRunning, nadded, added, owed, skipped, lastFailed>>

\* lines 55-57: current_interval = minutes; return True
UpdateL55(t) ==
  /\ pc[t] = "l55"
  /\ current_interval' = arg[t]
  /\ pc' = [pc EXCEPT ![t] = "idle"]
  /\ result' = [result EXCEPT ![t] = "True"]
  /\ UNCHANGED <<reportVars, storeVars, scheduler, nInst, state, pending, jobs, instances, clock, sub, arg, calls,
                 sawRunning, nadded, added, owed, skipped, lastFailed>>

update_interval(t) == UpdateL53(t) \/ UpdateL54(t) \/ UpdateL55(t)

api_settings(t) == (\E m \in Minutes : SettingsCall(t, m)) \/ update_interval(t)

\* get_interval()
get_interval == current_interval

(* ----------------------- the scheduler's own thread ------------------- *)
\* jobstore.get_due_jobs(now)
DueJobs(i) == {id \in DOMAIN jobs[i] : jobs[i][id].next_run <= clock}

\* BaseExecutor.submit_job: a job id that already has max_instances runs in
\* progress is refused (MaxInstancesReachedError) and this firing is skipped.
\* faulty variant: no limit on concurrent instances of a job
CanSubmit_NoLimit(i, id) == TRUE
CanSubmit(i, id) == Count(instances[i], id) < MaxInstances

\* One pass of BaseScheduler._process_jobs of instance i, under the job-store
\* lock: every due job is handed to the executor (or skipped), then gets its
\* next run time; a job whose trigger is spent is removed.
ProcessJobs(i) ==
  /\ state[i] = "running"
  /\ DueJobs(i) # {}
  /\ LET due == DueJobs(i)
         submit == {id \in due : CanSubmit(i, id)}
         spent == {id \in due : NextFire(jobs[i][id], clock) = NoTime}
     IN
     /\ instances' = [instances EXCEPT ![i] =
                        [id \in DOMAIN instances[i] \cup submit |->
                           Count(instances[i], id) + (IF id \in submit THEN 1 ELSE 0)]]
     /\ owed' = LET once == {id \in submit : jobs[i][id].trigger = "date"} IN
                [id \in {x \in DOMAIN owed \cup once :
                           Count(owed, x) - (IF x \in once THEN 1 ELSE 0) # 0} |->
                   Count(owed, id) - (IF id \in once THEN 1 ELSE 0)]
     /\ skipped' = skipped \cup (due \ submit)
     /\ jobs' = [jobs EXCEPT ![i] =
                   [id \in DOMAIN jobs[i] \ spent |->
                      IF id \in due
                        THEN [jobs[i][id] EXCEPT !.next_run = NextFire(jobs[i][id], clock)]
                        ELSE jobs[i][id]]]
  /\ UNCHANGED <<reportVars, storeVars, scheduler, current_interval, nInst, state, pending, clock, sub, pc, arg,
                 result, calls, sawRunning, nadded, added, lastFailed>>

\* run_job in a pool thread ends: the action returned (ok) or raised; either
\* way the executor logs it and releases the job id's instance slot
\* (_run_job_success, _run_job_error).
release(inst, id) ==
  IF inst[id] = 1 THEN Drop(inst, {id}) ELSE [inst EXCEPT ![id] = @ - 1]

\* faulty variant: a job that raises is removed from the job store
JobDone_CancelsOnFailure(i, id, ok) ==
  /\ id \in DOMAIN instances[i]
  /\ instances' = [instances EXCEPT ![i] = release(@, id)]
  /\ lastFailed' = IF ok THEN lastFailed ELSE id
  /\ jobs' = IF ok THEN jobs ELSE [jobs EXCEPT ![i] = Drop(@, {id})]
  /\ UNCHANGED <<reportVars, storeVars, scheduler, current_interval, nInst, state, pending, clock, sub, pc,
                 arg, result, calls, sawRunning, nadded, added, owed, skipped>>
JobDone(i, id, ok) ==
  /\ id \in DOMAIN instances[i]
  /\ instances' = [instances EXCEPT ![i] = release(@, id)]
  /\ lastFailed' = IF ok THEN lastFailed ELSE id
  /\ UNCHANGED <<reportVars, storeVars, scheduler, current_interval, nInst, state, pending, jobs, clock, sub, pc,
                 arg, result, calls, sawRunning, nadded, added, owed, skipped>>

JobReturns(i) == \E id \in DOMAIN instances[i] : JobDone(i, id, TRUE)
JobRaises(i)  == \E id \in DOMAIN instances[i] : JobDone(i, id, FALSE)

Min(S) == CHOOSE x \in S : \A y \in S : x <= y

\* the run times the scheduler loops sleep until, as far as the clock is observed
NextDue ==
  (UNION {{jobs[i][id].next_run : id \in DOMAIN jobs[i]} :
            i \in {k \in Insts : state[k] = "running"}})
  \cap ((clock + 1)..MaxClock)

\* Time passes until the next job is due.  The scheduler loop sleeps until the
\* next due time and add_job wakes it, so a pass that has due jobs runs before
\* the minute changes.
Tick ==
  /\ \A i \in Insts : state[i] = "running" => DueJobs(i) = {}
  /\ \A t \in Threads : pc[t] = "idle"
  /\ NextDue # {}
  /\ clock' = Min(NextDue)
  /\ sub' = 0
  /\ UNCHANGED <<reportVars, storeVars, scheduler, current_interval, nInst, state, pending, jobs, instances,
                 pc, arg, result, calls, sawRunning, nadded, added, owed, skipped, lastFailed>>

\* The clock reading changes within the minute.
SubTick ==
  /\ sub < Readings - 1
  /\ sub' = sub + 1
  /\ UNCHANGED <<reportVars, storeVars, scheduler, current_interval, nInst, state, pending, jobs, instances, clock,
                 pc, arg, result, calls, sawRunning, nadded, added, owed, skipped, lastFailed>>

(* ------------------------- get_next_run_time -------------------------- *)
NoJobFound == [trigger |-> "none"]

\* faulty variant: only the pending jobs are searched
get_job_PendingOnly(i, id) ==
  LET hits == {k \in 1..Len(pending[i]) : pending[i][k][1] = id} IN
  IF hits = {} THEN NoJobFound ELSE pending[i][Min(hits)][2]

\* BaseScheduler.get_job(id) on instance i: a stopped scheduler searches its
\* pending jobs, a running one its job store; None when there is no such job.
get_job(i, id) ==
  IF state[i] = "stopped"
    THEN LET hits == {k \in 1..Len(pending[i]) : pending[i][k][1] = id} IN
         IF hits = {} THEN NoJobFound ELSE pending[i][Min(hits)][2]
    ELSE IF id \in DOMAIN jobs[i] THEN jobs[i][id] ELSE NoJobFound

\* lines 65-69.  A pending job has no next_run_time attribute yet.
get_next_run_time ==
  IF scheduler = None THEN "Unknown"
  ELSE LET job == get_job(scheduler, PipelineId) IN
       IF job = NoJobFound THEN "Unknown"
       ELSE IF job.next_run = NoTime THEN "AttributeError"
       ELSE ToString(job.next_run)

\* GET /api/settings (routes.py lines 131-135) on thread t.  The routes belong
\* to the app create_app returns, so no request is served while the
\* start_scheduler call of create_app is still running.
SettingsGet(t) ==
  /\ \A u \in Starters : pc[u] = "idle"
  /\ calls[t] < MaxCalls
  /\ calls' = [calls EXCEPT ![t] = @ + 1]
  /\ result' = [result EXCEPT ![t] = get_next_run_time]
  /\ UNCHANGED <<reportVars, storeVars, scheduler, current_interval, nInst, state, pending,
                 jobs, instances, clock, sub, pc, arg, sawRunning, nadded, added, owed,
                 skipped, lastFailed>>

(* --------------------- addon_service: the corpus ---------------------- *)
\* A text (the `cleaned` or `operational_tag` cell of a row) is the set of the
\* keywords it contains as substrings, in lower case: that is all
\* str.contains(pattern, case=False) reads of it.
\* SECTOR_MAP, three of its sectors
SECTOR_MAP ==
  [energy   |-> {"energy", "fuel", "power", "electricity", "utility", "solar", "renewable"},
   health   |-> {"health", "medical", "pharmaceutical", "hospital", "medicine", "drug"},
   economic |-> {"economic", "finance", "bank", "investment", "tax", "inflation", "market",
                 "cbsl"}]
\* LOCATION_MAP, two of its locations
LOCATION_MAP ==
  [colombo |-> {"colombo", "western province"},
   kandy   |-> {"kandy", "central province", "peradeniya"}]

\* SECTOR_MAP.get(sector, [])
sector_tags(sector) == IF sector \in DOMAIN SECTOR_MAP THEN SECTOR_MAP[sector] ELSE {}
\* LOCATION_MAP.get(location, [location])
loc_keywords(location) ==
  IF location \in DOMAIN LOCATION_MAP THEN LOCATION_MAP[location] ELSE {location}
\* [w for w in description.lower().split() if len(w) > 4]
desc_keywords(description) ==
  {description[k] : k \in {j \in 1..Len(description) : Len(description[j]) > 4}}

\* series.str.contains('|'.join(keywords), case=False, na=False), for one cell
contains(text, keywords) == text \cap keywords # {}

\* df[df[column].str.contains(pattern)]: the matching rows, in order
by_tag(rows, keywords) ==
  SelectSeq(rows, LAMBDA r : contains(r.operational_tag, keywords))
by_text(rows, keywords) ==
  SelectSeq(rows, LAMBDA r : contains(r.cleaned, keywords))

\* DataFrame.head(n)
head(rows, n) == SubSeq(rows, 1, IF Len(rows) < n THEN Len(rows) ELSE n)

\* DataFrame.drop_duplicates(): of the rows equal in every column the first stays
RECURSIVE drop_duplicates(_)
drop_duplicates(rows) ==
  IF rows = <<>> THEN <<>>
  ELSE LET init == drop_duplicates(SubSeq(rows, 1, Len(rows) - 1))
           last == rows[Len(rows)]
       IN IF \E k \in 1..Len(init) : init[k] = last THEN init ELSE Append(init, last)

\* lines 227-236: 1. Sector Filter
sector_filter(rows, sector) ==
  LET tags == sector_tags(sector) IN
  IF tags # {}
    THEN drop_duplicates(by_tag(rows, tags) \o by_text(rows, tags))
    ELSE rows

\* lines 238-254: 2. Location Filter
location_filter(rows, relevant_df, location) ==
  IF location # "general"
    THEN LET local_df == by_text(relevant_df, loc_keywords(location)) IN
         IF local_df # <<>>
           THEN drop_duplicates(relevant_df \o by_text(rows, loc_keywords(location)))
           ELSE relevant_df
    ELSE relevant_df

\* faulty variant: only the first row matching the description is added
description_filter_FirstOnly(rows, relevant_df, description) ==
  LET keywords == desc_keywords(description) IN
  IF keywords # {}
    THEN drop_duplicates(relevant_df \o head(by_text(rows, keywords), 1))
    ELSE relevant_df
\* lines 256-261: 3. Description Keywords
description_filter(rows, relevant_df, description) ==
  LET keywords == desc_keywords(description) IN
  IF keywords # {}
    THEN drop_duplicates(relevant_df \o by_text(rows, keywords))
    ELSE relevant_df

\* lines 263-264: the economic rows when nothing was selected
economic_fallback(rows, relevant_df) ==
  IF relevant_df = <<>> THEN by_tag(rows, {"economic"}) ELSE relevant_df

\* lines 227-264: the rows the analysis is made of
relevant_rows(rows, req) ==
  economic_fallback(rows,
    description_filter(rows,
      location_filter(rows, sector_filter(rows, req.sector), req.location),
      req.description))

(* --------------------- addon_service: the scores ---------------------- *)
\* sentiment_score is kept in tenths and impact_score in whole units; a
\* quotient is the pair <<numerator, denominator>> and is never rounded.
Abs(x) == IF x < 0 THEN -x ELSE x

\* faulty variant: the weight follows the signed impact
weight_Signed(impact) == 10 + impact
\* line 73-74: weight = 1 + abs(impact) * 0.1, in tenths
weight(impact) == 10 + Abs(impact)

\* lines 69-76: the loop over the rows; <<total_score, total_weight>>
RECURSIVE totals(_)
totals(rows) ==
  IF rows = <<>> THEN <<0, 0>>
  ELSE LET t == totals(SubSeq(rows, 1, Len(rows) - 1))
           row == rows[Len(rows)]
       IN <<t[1] + row.sentiment_score * weight(row.impact_score),
            t[2] + weight(row.impact_score)>>

\* lines 67-77: 0 for no rows, else total_score / total_weight (in tenths)
get_weighted_sentiment(rows) ==
  IF rows = <<>> THEN <<0, 1>>
  ELSE LET t == totals(rows) IN IF t[2] > 0 THEN t ELSE <<0, 1>>

\* line 273: relevant_df[relevant_df['impact_score'] < 0]['impact_score'].sum()
RECURSIVE neg_impact_sum(_)
neg_impact_sum(rows) ==
  IF rows = <<>> THEN 0
  ELSE neg_impact_sum(Tail(rows)) +
       (IF Head(rows).impact_score < 0 THEN Head(rows).impact_score ELSE 0)

\* lines 274-278: abs(neg_impact_sum) / len(relevant_df), times 1.2 for a high
\* or very high investment
normalized_risk(rows, investment) ==
  LET base == IF Len(rows) > 0 THEN <<Abs(neg_impact_sum(rows)), Len(rows)>> ELSE <<0, 1>>
  IN IF investment \in {"high", "very_high"}
       THEN <<base[1] * 12, base[2] * 10>>
       ELSE base

\* faulty variant: the thresholds are inclusive
risk_level_Inclusive(risk) ==
  IF risk[1] >= 3 * risk[2] THEN "High"
  ELSE IF 2 * risk[1] >= 3 * risk[2] THEN "Medium"
  ELSE "Low"
\* lines 281-283: > 3.0 High, > 1.5 Medium, else Low
risk_level(risk) ==
  IF risk[1] > 3 * risk[2] THEN "High"
  ELSE IF 2 * risk[1] > 3 * risk[2] THEN "Medium"
  ELSE "Low"

(* --------------------- addon_service: the reports --------------------- *)
\* line 309: reg_keywords
RegKeywords == {"gazette", "parliament", "bill", "act", "regulation"}
\* line 314: reg_matches.head(5)
FallbackRows == 5

\* faulty variant: the archive is searched only when the scrape found nothing
needs_fallback_WhenEmpty(scraped) == Len(scraped) < 1
\* line 308: if not gazette_list or len(gazette_list) < 2
needs_fallback(scraped) == Len(scraped) < 2

\* lines 312-313: the rows with a regulatory keyword and a keyword of the
\* sector ('economic' for a sector without tags)
reg_matches(rows, sector) ==
  by_text(by_text(rows, RegKeywords),
          IF sector_tags(sector) # {} THEN sector_tags(sector) ELSE {"economic"})

\* lines 315-319: the entry appended for a row
gazette_entry(row) == [title |-> row.Title, link |-> row.Link]

\* lines 305-319: the scraped list, then up to five archive rows
gazette_list(rows, sector, scraped) ==
  IF needs_fallback(scraped)
    THEN LET m == head(reg_matches(rows, sector), FallbackRows)
         IN scraped \o [k \in 1..Len(m) |-> gazette_entry(m[k])]
    ELSE scraped

\* lines 346-348: rows with sentiment > 0.1, within [-0.1, 0.1], < -0.1
sentiment_dist(rows) ==
  <<Len(SelectSeq(rows, LAMBDA r : r.sentiment_score > 1)),
    Len(SelectSeq(rows, LAMBDA r : r.sentiment_score >= -1 /\ r.sentiment_score <= 1)),
    Len(SelectSeq(rows, LAMBDA r : r.sentiment_score < -1))>>

\* the rows in stable order of sentiment_score, highest first (lowest first)
RECURSIVE sort_values(_, _)
sort_values(rows, descending) ==
  IF rows = <<>> THEN <<>>
  ELSE LET init == sort_values(SubSeq(rows, 1, Len(rows) - 1), descending)
           last == rows[Len(rows)]
           keep == {k \in 1..Len(init) :
                      IF descending THEN init[k].sentiment_score >= last.sentiment_score
                                    ELSE init[k].sentiment_score <= last.sentiment_score}
           at == Cardinality(keep)
       IN SubSeq(init, 1, at) \o <<last>> \o SubSeq(init, at + 1, Len(init))
\* DataFrame.nlargest(n, 'sentiment_score'): keep='first'
nlargest(rows, n) == head(sort_values(rows, TRUE), n)
\* faulty variant: the lowest rows read off the end of the descending order
nsmallest_AsTail(rows, n) ==
  LET sorted == sort_values(rows, TRUE)
  IN SubSeq(sorted, IF Len(sorted) > n THEN Len(sorted) - n + 1 ELSE 1, Len(sorted))
\* DataFrame.nsmallest(n, 'sentiment_score'): keep='first'
nsmallest(rows, n) == head(sort_values(rows, FALSE), n)
\* lines 286-287: nlargest(5, ...), nsmallest(5, ...)
TopRows == 5
\* lines 289-293: the titles, or the placeholder for none
titles(rows) ==
  IF rows = <<>> THEN <<"No specific data found.">>
  ELSE [k \in 1..Len(rows) |-> rows[k].Title]

\* lines 43-58: the advisories of SUGGESTION_KB that generate_suggestions uses
SUGGESTION_KB ==
  [high_risk |->
     [energy |-> "Grid instability detected. Include budget for industrial-grade backup power (solar/diesel).",
      transport |-> "Supply chain disruption probable. Diversify logistics partners.",
      economic |-> "High market volatility. Minimize USD exposure and seek fixed-rate financing.",
      construction |-> "Material cost fluctuation is high. Use cost-plus contracts where possible.",
      general |-> "Environment is volatile. Adopt a lean operational model to minimize burn rate."],
   inflation |-> "Rising operational costs detected. Implement dynamic pricing and secure long-term supplier contracts.",
   tax |-> "New tax regulations likely. Consult with tax advisors on VAT/SSCL compliance.",
   labor |-> "Labor unrest detected. Focus on employee retention and contingency staffing.",
   import |-> "Import restrictions possible. Source raw materials locally where possible.",
   export_market |-> "Exchange rate volatility is a key factor. Consider hedging instruments for currency risk.",
   high_investment |-> "Large capital exposure in current climate requires stepped investment approach. Release funds based on milestones.",
   domestic_market_low |-> "Domestic demand may be suppressed. Consider value-segments or essential goods focus."]
\* line 109
Monitor == "Monitor competitor pricing and maintain flexible operational plans."

\* lines 83-84: 1. Sector & Risk Advice
risk_advice(sector, risk) ==
  IF risk = "High"
    THEN <<IF sector \in DOMAIN SUGGESTION_KB.high_risk
             THEN SUGGESTION_KB.high_risk[sector] ELSE SUGGESTION_KB.high_risk.general>>
    ELSE <<>>
\* faulty variant: the staged release is advised whatever the risk
investment_advice_AnyRisk(investment, risk) ==
  IF investment \in {"high", "very_high"} THEN <<SUGGESTION_KB.high_investment>> ELSE <<>>
\* lines 87-88: 2. Investment Level Advice
investment_advice(investment, risk) ==
  IF investment \in {"high", "very_high"} /\ risk # "Low"
    THEN <<SUGGESTION_KB.high_investment>> ELSE <<>>
\* lines 91-94: 3. Market Focus Advice
market_advice(target_market, risk) ==
  IF target_market \in {"export", "mixed"} THEN <<SUGGESTION_KB.export_market>>
  ELSE IF target_market = "domestic" /\ risk = "High" THEN <<SUGGESTION_KB.domestic_market_low>>
  ELSE <<>>
\* lines 97-106: 4. Keyword based advice from threats; combined_text is the
\* set of keywords the joined titles contain
threat_advice(threat_titles) ==
  LET combined_text == UNION {threat_titles[k] : k \in 1..Len(threat_titles)}
  IN (IF contains(combined_text, {"inflation", "price"}) THEN <<SUGGESTION_KB.inflation>> ELSE <<>>)
     \o (IF contains(combined_text, {"tax", "vat"}) THEN <<SUGGESTION_KB.tax>> ELSE <<>>)
     \o (IF contains(combined_text, {"strike", "protest"}) THEN <<SUGGESTION_KB.labor>> ELSE <<>>)
     \o (IF contains(combined_text, {"import", "customs"}) THEN <<SUGGESTION_KB.import>> ELSE <<>>)

\* lines 79-111: the advisories before list(set(...))
generate_suggestions(sector, risk, threat_titles, context) ==
  LET suggestions == risk_advice(sector, risk)
                       \o investment_advice(context.investment, risk)
                       \o market_advice(context.target_market, risk)
                       \o threat_advice(threat_titles)
  IN IF suggestions = <<>> THEN <<Monitor>> ELSE suggestions

\* line 111: list(set(suggestions)) lists every distinct string once, in an
\* order the language leaves open: all the orders it may have
RECURSIVE orders(_)
orders(S) ==
  IF S = {} THEN {<<>>}
  ELSE UNION {{<<x>> \o o : o \in orders(S \ {x})} : x \in S}
list_set(suggestions) == orders({suggestions[k] : k \in 1..Len(suggestions)})

\* generate_suggestions is called
SuggestCall ==
  /\ response = NoResponse
  /\ \E listed \in list_set(generate_suggestions(request.sector, request.risk_level,
                                                 request.threats, request)) :
       response' = [kind |-> "suggestions", suggestions |-> listed]
  /\ UNCHANGED <<schedVars, storeVars, data_file, df, request, gazettes, fresh>>

\* lines 218-371.  file is what the call finds at data_file: "absent", "empty"
\* (no bytes: pd.read_csv raises EmptyDataError), "unreadable" (pd.read_csv
\* raises) or "ok" with the rows it holds.
analyze_company_feasibility(file, rows, req, scraped) ==
  IF file = "absent" THEN [kind |-> "error", error |-> "Data file not found"]
  ELSE IF file # "ok" THEN [kind |-> "error", error |-> "Analysis failed"]
  ELSE LET relevant_df == relevant_rows(rows, req)
           risk == normalized_risk(relevant_df, req.investment)
       IN [kind |-> "report",
           relevant_df |-> relevant_df,
           sentiment_score |-> get_weighted_sentiment(relevant_df),
           normalized_risk |-> risk,
           risk_level |-> risk_level(risk),
           gazette_matches |-> gazette_list(rows, req.sector, scraped),
           opportunities |-> titles(nlargest(relevant_df, TopRows)),
           threats |-> titles(nsmallest(relevant_df, TopRows)),
           sentiment_dist |-> sentiment_dist(relevant_df)]

\* lines 424-434: the columns given to a scraped headline; its text is its title
tag_fresh(row) ==
  [Title |-> row.Title, Link |-> row.Link, cleaned |-> row.cleaned,
   sentiment_score |->
     (IF contains(row.cleaned, {"gain", "up", "higher", "green", "bull", "profit", "rise"})
        THEN 5 ELSE 0)
     - (IF contains(row.cleaned, {"loss", "down", "lower", "red", "bear", "crash", "drop"})
          THEN 5 ELSE 0),
   operational_tag |-> {"economic"},
   impact_score |-> 1]

\* line 397
STOCK_KEYWORDS ==
  {"cse", "colombo stock exchange", "share market", "bourse", "equity", "dividend",
   "earning", "profit", "loss", "ipo", "rights issue", "stock"}
\* lines 376-395: three of the companies, in the order of the table, with
\* their aliases in lower case (the match ignores case)
CSE_COMPANIES ==
  <<[ticker |-> "JKH", aliases |-> {"john keells", "jkh", "keells"}],
    [ticker |-> "SAMP", aliases |-> {"sampath bank", "sampath"}],
    [ticker |-> "DIAL", aliases |-> {"dialog axiata", "dialog"}]>>
\* lines 400-408: two of the entries; their targets are keys of SECTOR_MAP
STOCK_SECTOR_MAPPING == [Bank |-> "economic", Utility |-> "energy"]
\* lines 13-25: the keys of SECTOR_MAP in the order of the table
SectorOrder == <<"energy", "health", "economic">>

\* round(score, 2) of a quotient <<n, d>> in tenths, as a whole number of
\* hundredths; a value exactly half way goes to the even neighbour
round2(q) ==
  LET n == 10 * q[1]
      d == q[2]
      lo == n \div d
      r == n % d
  IN IF 2 * r < d THEN lo
     ELSE IF 2 * r > d THEN lo + 1
     ELSE IF lo % 2 = 0 THEN lo ELSE lo + 1

\* lines 441-449: the market news; with fewer than 5 rows the scraped
\* headlines are added
market_news(rows, tagged) ==
  LET found == by_text(rows, STOCK_KEYWORDS)
  IN IF Len(found) < 5 /\ tagged # <<>> THEN drop_duplicates(found \o tagged) ELSE found

\* faulty variant: a cautious profile turns every Buy into Hold
signal_AlwaysDowngrade(score, risk) ==
  IF score > 1 THEN (IF risk = "conservative" THEN "Hold" ELSE "Buy")
  ELSE IF score < -1 THEN "Sell" ELSE "Hold"
\* lines 468-474: Signal Logic, score in tenths
signal(score, risk) ==
  LET first == IF score > 1 THEN "Buy" ELSE IF score < -1 THEN "Sell" ELSE "Hold"
  IN IF risk = "conservative" /\ first = "Buy" /\ score < 4 THEN "Hold" ELSE first

\* lines 458-482: the entries of the companies some row mentions, in the
\* order of the table, each made of the first such row
RECURSIVE picks(_, _, _)
picks(rows, risk, k) ==
  IF k = 0 THEN <<>>
  ELSE LET company_df == by_text(rows, CSE_COMPANIES[k].aliases)
           init == picks(rows, risk, k - 1)
       IN IF company_df # <<>>
            THEN Append(init,
                   [ticker |-> CSE_COMPANIES[k].ticker,
                    sentiment |-> round2(<<company_df[1].sentiment_score, 1>>),
                    headline |-> company_df[1].Title,
                    signal |-> signal(company_df[1].sentiment_score, risk)])
            ELSE init

\* line 484: stock_picks.sort(key=sentiment, reverse=True); entries of equal
\* sentiment keep their order
RECURSIVE sort_picks(_)
sort_picks(list) ==
  IF list = <<>> THEN <<>>
  ELSE LET init == sort_picks(SubSeq(list, 1, Len(list) - 1))
           last == list[Len(list)]
           at == Cardinality({k \in 1..Len(init) : init[k].sentiment >= last.sentiment})
       IN SubSeq(init, 1, at) \o <<last>> \o SubSeq(init, at + 1, Len(init))

\* str.title() of the keys of SECTOR_MAP
title(sec) == [energy |-> "Energy", health |-> "Health", economic |-> "Economic"][sec]

\* faulty variant: every sector is scored whatever the focus
target_sectors_IgnoreFocus(focus_sector) == SectorOrder
\* lines 491-495: the sectors scored, in order
target_sectors(focus_sector) ==
  IF focus_sector = "all" THEN SectorOrder
  ELSE LET mapped_focus == IF focus_sector \in DOMAIN STOCK_SECTOR_MAPPING
                             THEN STOCK_SECTOR_MAPPING[focus_sector] ELSE "all"
       IN IF mapped_focus \in DOMAIN SECTOR_MAP THEN <<mapped_focus>> ELSE <<>>

\* lines 497-509: the loop over the sectors; q1 > q2 for quotients
greater(q1, q2) == q1[1] * q2[2] > q2[1] * q1[2]
RECURSIVE sectors(_, _, _)
sectors(rows, targets, k) ==
  IF k = 0 THEN [perf |-> <<>>, top_name |-> "N/A", top_score |-> <<-990, 1>>]
  ELSE LET init == sectors(rows, targets, k - 1)
           score == get_weighted_sentiment(by_tag(rows, SECTOR_MAP[targets[k]]))
       IN [perf |-> Append(init.perf, [sector |-> title(targets[k]), score |-> round2(score)]),
           top_name |-> IF greater(score, init.top_score) THEN title(targets[k])
                        ELSE init.top_name,
           top_score |-> IF greater(score, init.top_score) THEN score ELSE init.top_score]

\* faulty variant: the thresholds are inclusive
action_Inclusive(q) ==
  IF q[1] >= q[2] THEN "Accumulate" ELSE IF q[1] <= -2 * q[2] THEN "Stay Cash" ELSE "Hold"
\* line 512: market_sentiment > 0.1, < -0.2, for a quotient in tenths
action(q) ==
  IF q[1] > q[2] THEN "Accumulate" ELSE IF q[1] < -2 * q[2] THEN "Stay Cash" ELSE "Hold"

\* line 531: event_keywords, in the order of the table
event_keywords ==
  <<[k |-> "dividend", v |-> "Dividend Declared"],
    [k |-> "rights issue", v |-> "Rights Issue"],
    [k |-> "earning", v |-> "Earnings Report"],
    [k |-> "agm", v |-> "AGM"],
    [k |-> "ipo", v |-> "IPO"]>>
\* line 534: df.head(100)
PoolRows == 100
\* line 543: if len(events) >= 5: break
MaxEvents == 5

\* faulty variant: every keyword of a row makes an event
row_events_All(row) ==
  LET hits == SelectSeq(event_keywords, LAMBDA e : e.k \in row.cleaned)
  IN [j \in 1..Len(hits) |-> [type |-> hits[j].v, title |-> row.Title]]
\* lines 537-542: the event of a row, of the first keyword it holds
row_events(row) ==
  LET hits == SelectSeq(event_keywords, LAMBDA e : e.k \in row.cleaned)
  IN IF hits = <<>> THEN <<>> ELSE <<[type |-> hits[1].v, title |-> row.Title]>>

\* lines 536-543: the loop over the pool from row k on
RECURSIVE scan(_, _, _)
scan(pool, k, events) ==
  IF k > Len(pool) THEN events
  ELSE LET found == events \o row_events(pool[k])
       IN IF Len(found) >= MaxEvents THEN found ELSE scan(pool, k + 1, found)

\* lines 410-558: the rows a stock report is made of are the scraped headlines
\* followed by the corpus rows (none when the file is missing or pd.read_csv
\* raises); with no row at all the call returns an error.
analyze_stock_market(file, rows, headlines, risk, focus_sector) ==
  LET corpus == IF file = "ok" THEN rows ELSE <<>>
      tagged == [k \in 1..Len(headlines) |-> tag_fresh(headlines[k])]
      merged == IF headlines # <<>> THEN tagged \o corpus ELSE corpus
      news == market_news(merged, tagged)
      market_sentiment == get_weighted_sentiment(news)
      perf == sectors(merged, target_sectors(focus_sector), Len(target_sectors(focus_sector)))
      search_pool == IF news # <<>> THEN news ELSE head(merged, PoolRows)
  IN IF merged = <<>>
       THEN [kind |-> "error", error |-> "No market data available"]
       ELSE [kind |-> "report",
             rows |-> merged,
             market_news |-> news,
             market_sentiment |-> market_sentiment,
             top_sector |-> perf.top_name,
             recommended_action |-> action(market_sentiment),
             stock_picks |-> sort_picks(picks(merged, risk, Len(CSE_COMPANIES))),
             sector_performance |-> perf.perf,
             events |-> scan(search_pool, 1, <<>>)]

\* a feasibility report is asked for
FeasibilityCall ==
  /\ response = NoResponse
  /\ response' = analyze_company_feasibility(data_file, df, request, gazettes)
  /\ UNCHANGED <<schedVars, storeVars, data_file, df, request, gazettes, fresh>>

\* a stock report is asked for
StockCall ==
  /\ response = NoResponse
  /\ response' = analyze_stock_market(data_file, df, fresh, request.risk, request.focus_sector)
  /\ UNCHANGED <<schedVars, storeVars, data_file, df, request, gazettes, fresh>>

(* -------------------------- specifications ---------------------------- *)
\* A run that raises and a run that returns leave the scheduler, the job
\* store and the executor in the same state; they differ in `lastFailed` only.
Executions == \E i \in Insts : ProcessJobs(i) \/ JobReturns(i)
Failures   == \E i \in Insts : JobRaises(i)

\* create_app runs start_scheduler on the main thread.
Startup == start_scheduler("s1")

\* The orchestrator with its jobs firing, returning and raising.
NextJobs == Startup \/ Executions \/ Failures \/ Tick
SpecJobs == Init /\ [][NextJobs]_vars

\* ... with POST /api/refresh served on request threads.
NextRefresh ==
  Startup \/ (\E t \in Refreshers : refresh_now(t)) \/ Executions \/ Tick \/ SubTick
SpecRefresh == Init /\ [][NextRefresh]_vars

\* ... with POST /api/settings served on request threads.
NextSettings == Startup \/ (\E t \in Updaters : api_settings(t)) \/ Executions \/ Tick
SpecSettings == Init /\ [][NextSettings]_vars

\* start_scheduler called from several threads.
NextStart == (\E t \in Starters : start_scheduler(t)) \/ Executions \/ Tick
SpecStart == Init /\ [][NextStart]_vars

\* ... with GET /api/settings served on request threads.
NextReads == Startup \/ (\E t \in Getters : SettingsGet(t)) \/ Executions \/ Tick
SpecReads == Init /\ [][NextReads]_vars

\* The rows a corpus is made of: two rows share a link, one row of another
\* sector mentions the location, one row has the economic tag.
FilterRows ==
  {[Title |-> "t1", Link |-> "l1", cleaned |-> {"fuel"}, operational_tag |-> {"energy"},
    sentiment_score |-> -5, impact_score |-> -3],
   [Title |-> "t2", Link |-> "l1", cleaned |-> {"fuel", "kandy", "flood"},
    operational_tag |-> {"energy"},
    sentiment_score |-> 2, impact_score |-> 1],
   [Title |-> "t3", Link |-> "l3", cleaned |-> {"kandy", "flood"}, operational_tag |-> {"health"},
    sentiment_score |-> -8, impact_score |-> -5],
   [Title |-> "t4", Link |-> "l4", cleaned |-> {"tax"}, operational_tag |-> {"economic"},
    sentiment_score |-> 3, impact_score |-> 2],
   [Title |-> "t5", Link |-> "l5", cleaned |-> {"school", "ella"}, operational_tag |-> {"education"},
    sentiment_score |-> 0, impact_score |-> 0]}

\* the corpora of at most n rows of S
Corpora(S, n) == UNION {[1..k -> S] : k \in 0..n}

\* two entries of scrape_recent_gazettes()
Scraped ==
  <<[title |-> "Gazette No. 1", link |-> "g1", source |-> "Gazette Source"],
    [title |-> "Gazette No. 2", link |-> "g2", source |-> "Gazette Source"]>>

\* analyze_company_feasibility over a readable corpus, for the relevance filter
InitFilter ==
  /\ SchedulerInit /\ StoreIdle
  /\ data_file = "ok"
  /\ df \in Corpora(FilterRows, MaxRows)
  /\ request \in [sector : {"energy", "economic", "other"},
                  investment : {"medium"},
                  location : {"general", "kandy", "ella"},
                  description : {<<>>, <<"flood", "risk">>}]
  /\ gazettes = Scraped
  /\ fresh = <<>>
  /\ response = NoResponse
SpecFilter == InitFilter /\ [][FeasibilityCall]_vars

\* rows of every pairing of a sentiment (in tenths) and an impact, each with
\* a link of its own
ScoredRows ==
  {[Title |-> ToString(<<ss, is>>), Link |-> ToString(<<ss, is>>), cleaned |-> {},
    operational_tag |-> {"general"}, sentiment_score |-> ss, impact_score |-> is] :
     ss \in {-8, 0, 6}, is \in {-5, -3, 0, 4}}

\* analyze_company_feasibility for an unmapped sector, where every corpus row
\* is scored
InitScoring ==
  /\ SchedulerInit /\ StoreIdle
  /\ data_file = "ok"
  /\ df \in Corpora(ScoredRows, MaxRows)
  /\ request \in [sector : {"other"},
                  investment : {"low", "medium", "high", "very_high"},
                  location : {"general"},
                  description : {<<>>}]
  /\ gazettes = Scraped
  /\ fresh = <<>>
  /\ response = NoResponse
SpecScoring == InitScoring /\ [][FeasibilityCall]_vars

\* one headline of scrape_market_highlights()
Headlines == <<[Title |-> "Shares gain as banks rise", Link |-> "h1", cleaned |-> {"gain", "rise"}]>>

\* both reports, over a corpus file that may be missing, empty or unreadable
InitDegraded ==
  /\ SchedulerInit /\ StoreIdle
  /\ data_file \in {"absent", "empty", "unreadable", "ok"}
  /\ df \in IF data_file = "ok" THEN Corpora(FilterRows, MaxRows - 1) \ {<<>>} ELSE {<<>>}
  /\ request \in [sector : {"energy", "economic", "other"},
                  investment : {"medium", "high"},
                  location : {"general"},
                  description : {<<>>},
                  risk : {"moderate"},
                  focus_sector : {"all"}]
  /\ gazettes \in {<<>>, Scraped}
  /\ fresh \in {<<>>, Headlines}
  /\ response = NoResponse
SpecDegraded == InitDegraded /\ [][FeasibilityCall \/ StockCall]_vars

\* archive rows: a gazette on fuel, an act on the economy, a fuel report with
\* no regulatory word, a bill on no sector
GazetteRows ==
  {[Title |-> "a1", Link |-> "k1", cleaned |-> {"gazette", "fuel"},
    operational_tag |-> {"energy"}, sentiment_score |-> -2, impact_score |-> -1],
   [Title |-> "a2", Link |-> "k2", cleaned |-> {"act", "economic"},
    operational_tag |-> {"economic"}, sentiment_score |-> 0, impact_score |-> 0],
   [Title |-> "a3", Link |-> "k3", cleaned |-> {"fuel"},
    operational_tag |-> {"energy"}, sentiment_score |-> 3, impact_score |-> 2],
   [Title |-> "a4", Link |-> "k4", cleaned |-> {"bill"},
    operational_tag |-> {"education"}, sentiment_score |-> 0, impact_score |-> 0]}

\* analyze_company_feasibility when the scrape finds none, one or two gazettes
InitGazette ==
  /\ SchedulerInit /\ StoreIdle
  /\ data_file = "ok"
  /\ df \in Corpora(GazetteRows, MaxGazetteRows)
  /\ request \in [sector : {"energy", "other"},
                  investment : {"medium"},
                  location : {"general"},
                  description : {<<>>}]
  /\ gazettes \in {head(Scraped, n) : n \in 0..2}
  /\ fresh = <<>>
  /\ response = NoResponse
SpecGazette == InitGazette /\ [][FeasibilityCall]_vars

(* ------------------------- the corpus store --------------------------- *)
\* The corpus is the file DATA_FILE names.  inodes holds the content of every
\* file created so far and path the one DATA_FILE names (NoFile: none).  The
\* refresh job replaces the corpus while report calls read it.
Reporters == {"q1"}
\* rows of a corpus snapshot
StoreRows == 2

\* the corpus that the refresh of generation v produces
Snapshot(v) ==
  [k \in 1..StoreRows |->
     [Title |-> ToString(<<v, k>>), Link |-> ToString(<<v, k>>), cleaned |-> {"fuel"},
      operational_tag |-> {"energy"}, sentiment_score |-> -2, impact_score |-> -1]]

\* run_pipeline builds the new snapshot beside the visible one ...
run_pipeline_build ==
  /\ writer.pc = "idle"
  /\ writer.version < MaxRefresh
  /\ inodes' = Append(inodes, <<>>)
  /\ writer' = [writer EXCEPT !.pc = "building", !.tmp = Len(inodes) + 1]
  /\ UNCHANGED <<schedVars, reportVars, path, readers>>

\* ... row by row ...
run_pipeline_write ==
  /\ writer.pc = "building"
  /\ Len(inodes[writer.tmp]) < StoreRows
  /\ inodes' = [inodes EXCEPT ![writer.tmp] =
                  Append(@, Snapshot(writer.version + 1)[Len(@) + 1])]
  /\ UNCHANGED <<schedVars, reportVars, path, writer, readers>>

\* ... and swaps the visible reference to it in one step
run_pipeline_swap ==
  /\ writer.pc = "building"
  /\ Len(inodes[writer.tmp]) = StoreRows
  /\ path' = writer.tmp
  /\ data_file' = "ok"
  /\ writer' = [writer EXCEPT !.pc = "idle", !.tmp = NoFile, !.version = @ + 1]
  /\ UNCHANGED <<schedVars, df, request, gazettes, fresh, response, inodes, readers>>

\* faulty variant: the file is looked up again for every row read
read_from_Reopened(handle, visible) == visible
\* line 223: pd.read_csv reads every row through the file it opened
read_from(handle, visible) == handle

\* line 219: os.path.exists(DATA_FILE); without the file the call returns
ReportExists(t) ==
  /\ readers[t].pc = "idle"
  /\ response = NoResponse
  /\ IF path = NoFile
       THEN /\ readers' = [readers EXCEPT ![t].pc = "done"]
            /\ response' = analyze_company_feasibility("absent", <<>>, request, gazettes)
       ELSE /\ readers' = [readers EXCEPT ![t].pc = "open"]
            /\ UNCHANGED response
  /\ UNCHANGED <<schedVars, data_file, df, request, gazettes, fresh, inodes, path, writer>>

\* line 223: pd.read_csv opens the file DATA_FILE names at that moment
ReportOpen(t) ==
  /\ readers[t].pc = "open"
  /\ readers' = [readers EXCEPT ![t].pc = "reading", ![t].handle = path, ![t].buf = <<>>]
  /\ UNCHANGED <<schedVars, reportVars, inodes, path, writer>>

\* line 223: pd.read_csv reads the next row, or reaches the end of the file;
\* lines 227-371: the report is then made of the rows read
ReportRead(t) ==
  /\ readers[t].pc = "reading"
  /\ LET file == inodes[read_from(readers[t].handle, path)]
         buf == readers[t].buf
     IN IF Len(buf) < Len(file)
          THEN /\ readers' = [readers EXCEPT ![t].buf = Append(buf, file[Len(buf) + 1])]
               /\ UNCHANGED <<df, response>>
          ELSE /\ readers' = [readers EXCEPT ![t].pc = "done"]
               /\ df' = buf
               /\ response' = analyze_company_feasibility("ok", buf, request, gazettes)
  /\ UNCHANGED <<schedVars, data_file, request, gazettes, fresh, inodes, path, writer>>

\* a report call beside the refresh job, with or without a corpus at the start
InitStore ==
  /\ SchedulerInit
  /\ \/ inodes = <<>> /\ path = NoFile /\ data_file = "absent"
     \/ inodes = <<Snapshot(0)>> /\ path = 1 /\ data_file = "ok"
  /\ writer = [pc |-> "idle", tmp |-> NoFile, version |-> 0]
  /\ readers = [t \in Reporters |-> [pc |-> "idle", handle |-> NoFile, buf |-> <<>>]]
  /\ df = <<>>
  /\ request \in [sector : {"energy", "other"},
                  investment : {"medium", "high"},
                  location : {"general"},
                  description : {<<>>}]
  /\ gazettes = Scraped
  /\ fresh = <<>>
  /\ response = NoResponse
NextStore ==
  \/ run_pipeline_build
  \/ run_pipeline_write
  \/ run_pipeline_swap
  \/ \E t \in Reporters : ReportExists(t)
  \/ \E t \in Reporters : ReportOpen(t)
  \/ \E t \in Reporters : ReportRead(t)
SpecStore == InitStore /\ [][NextStore]_vars

\* rows with equal and with different sentiment, each with a title of its own
RankedRows ==
  {[Title |-> "r1", Link |-> "m1", cleaned |-> {"fuel"}, operational_tag |-> {"energy"},
    sentiment_score |-> 5, impact_score |-> 1],
   [Title |-> "r2", Link |-> "m2", cleaned |-> {"fuel"}, operational_tag |-> {"energy"},
    sentiment_score |-> 5, impact_score |-> 0],
   [Title |-> "r3", Link |-> "m3", cleaned |-> {"tax"}, operational_tag |-> {"economic"},
    sentiment_score |-> -2, impact_score |-> -2],
   [Title |-> "r4", Link |-> "m4", cleaned |-> {"tax"}, operational_tag |-> {"economic"},
    sentiment_score |-> -2, impact_score |-> -1]}

\* analyze_company_feasibility over corpora longer than the lists it ranks
InitRanking ==
  /\ SchedulerInit /\ StoreIdle
  /\ data_file = "ok"
  /\ df \in Corpora(RankedRows, MaxRanked)
  /\ request \in [sector : {"energy", "other"},
                  investment : {"medium"},
                  location : {"general"},
                  description : {<<>>}]
  /\ gazettes = Scraped
  /\ fresh = <<>>
  /\ response = NoResponse
SpecRanking == InitRanking /\ [][FeasibilityCall]_vars

\* rows that mention companies, with sentiments on and beside the thresholds
SignalRows ==
  {[Title |-> "j1", Link |-> "n1", cleaned |-> {"jkh", "keells"}, operational_tag |-> {"economic"},
    sentiment_score |-> 1, impact_score |-> 0],
   [Title |-> "j2", Link |-> "n2", cleaned |-> {"keells", "stock"}, operational_tag |-> {"economic"},
    sentiment_score |-> 2, impact_score |-> 1],
   [Title |-> "s1", Link |-> "n3", cleaned |-> {"sampath"}, operational_tag |-> {"economic"},
    sentiment_score |-> 4, impact_score |-> 2],
   [Title |-> "s2", Link |-> "n4", cleaned |-> {"sampath", "dialog"}, operational_tag |-> {"economic"},
    sentiment_score |-> -2, impact_score |-> -1],
   [Title |-> "d1", Link |-> "n5", cleaned |-> {"dialog"}, operational_tag |-> {"energy"},
    sentiment_score |-> -1, impact_score |-> 0],
   [Title |-> "x1", Link |-> "n6", cleaned |-> {"stock"}, operational_tag |-> {"health"},
    sentiment_score |-> 3, impact_score |-> 0]}
\* a scraped headline that mentions a company
CompanyHeadlines ==
  <<[Title |-> "JKH profit up", Link |-> "h2", cleaned |-> {"jkh", "profit", "up"}]>>

\* analyze_stock_market for every risk profile
InitSignals ==
  /\ SchedulerInit /\ StoreIdle
  /\ data_file = "ok"
  /\ df \in Corpora(SignalRows, MaxRows)
  /\ request \in [horizon : {"short"},
                  risk : {"conservative", "moderate", "aggressive"},
                  focus_sector : {"all"}]
  /\ gazettes = <<>>
  /\ fresh \in {<<>>, CompanyHeadlines}
  /\ response = NoResponse
SpecSignals == InitSignals /\ [][StockCall]_vars

\* rows with two event keywords, with one that is no stock keyword, and with
\* a stock keyword only
EventRows ==
  {[Title |-> "e1", Link |-> "v1", cleaned |-> {"dividend", "ipo"}, operational_tag |-> {"economic"},
    sentiment_score |-> 3, impact_score |-> 1],
   [Title |-> "e2", Link |-> "v2", cleaned |-> {"agm"}, operational_tag |-> {"economic"},
    sentiment_score |-> 0, impact_score |-> 0],
   [Title |-> "e3", Link |-> "v3", cleaned |-> {"earning", "agm"}, operational_tag |-> {"energy"},
    sentiment_score |-> -2, impact_score |-> -1],
   [Title |-> "e4", Link |-> "v4", cleaned |-> {"stock"}, operational_tag |-> {"health"},
    sentiment_score |-> 1, impact_score |-> 0]}
\* n rows with no stock or event keyword
Padding(n) ==
  [k \in 1..n |->
     [Title |-> "p", Link |-> ToString(k), cleaned |-> {"weather"}, operational_tag |-> {"health"},
      sentiment_score |-> 0, impact_score |-> 0]]

\* analyze_stock_market over short corpora with more event rows than the cap,
\* and over corpora that end just before and just after row 100
InitEvents ==
  /\ SchedulerInit /\ StoreIdle
  /\ data_file = "ok"
  /\ \/ df \in Corpora(EventRows, MaxEventRows) /\ fresh \in {<<>>, Headlines}
     \/ /\ \E n \in {PoolRows - 1, PoolRows} :
             df \in {Padding(n) \o tail : tail \in Corpora(EventRows, 2)}
        /\ fresh = <<>>
  /\ request \in [horizon : {"short"}, risk : {"moderate"}, focus_sector : {"all"}]
  /\ gazettes = <<>>
  /\ response = NoResponse
SpecEvents == InitEvents /\ [][StockCall]_vars

\* threat titles, each the set of the keywords it contains
ThreatTitles == {{"price"}, {"inflation", "tax"}, {"vat"}, {"strike"}, {"customs"}, {}}

\* generate_suggestions for every sector, risk level, investment and target
\* market, over up to MaxThreats threat titles
InitAdvice ==
  /\ SchedulerInit /\ StoreIdle
  /\ data_file = "ok"
  /\ df = <<>>
  /\ request \in [sector : {"energy", "economic", "health"},
                  risk_level : {"Low", "Medium", "High"},
                  investment : {"low", "high", "very_high"},
                  target_market : {"domestic", "export", "mixed", "local"},
                  threats : Corpora(ThreatTitles, MaxThreats)]
  /\ gazettes = <<>>
  /\ fresh = <<>>
  /\ response = NoResponse
SpecAdvice == InitAdvice /\ [][SuggestCall]_vars

\* market rows whose weighted sentiment falls on and beside 0.1 and -0.2, and
\* a row that is no market news
ActionRows ==
  {[Title |-> "a1", Link |-> "w1", cleaned |-> {"stock"}, operational_tag |-> {"economic"},
    sentiment_score |-> 1, impact_score |-> 0],
   [Title |-> "a2", Link |-> "w2", cleaned |-> {"stock", "profit"}, operational_tag |-> {"economic"},
    sentiment_score |-> 2, impact_score |-> 2],
   [Title |-> "a3", Link |-> "w3", cleaned |-> {"bourse"}, operational_tag |-> {"economic"},
    sentiment_score |-> -2, impact_score |-> 0],
   [Title |-> "a4", Link |-> "w4", cleaned |-> {"equity", "loss"}, operational_tag |-> {"energy"},
    sentiment_score |-> -3, impact_score |-> -1],
   [Title |-> "a5", Link |-> "w5", cleaned |-> {"stock"}, operational_tag |-> {"energy"},
    sentiment_score |-> 0, impact_score |-> -2],
   [Title |-> "a6", Link |-> "w6", cleaned |-> {"weather"}, operational_tag |-> {"health"},
    sentiment_score |-> 8, impact_score |-> 5]}

\* analyze_stock_market over those rows
InitAction ==
  /\ SchedulerInit /\ StoreIdle
  /\ data_file = "ok"
  /\ df \in Corpora(ActionRows, MaxRows)
  /\ request \in [horizon : {"short"}, risk : {"moderate"}, focus_sector : {"all"}]
  /\ gazettes = <<>>
  /\ fresh \in {<<>>, Headlines}
  /\ response = NoResponse
SpecAction == InitAction /\ [][StockCall]_vars

\* rows of three sectors; two sectors can come out with the same score, and
\* the score of a sector need not be a whole number of hundredths
SectorRows ==
  {[Title |-> "c1", Link |-> "y1", cleaned |-> {"stock"}, operational_tag |-> {"energy"},
    sentiment_score |-> 5, impact_score |-> 1],
   [Title |-> "c2", Link |-> "y2", cleaned |-> {"fuel"}, operational_tag |-> {"fuel"},
    sentiment_score |-> -2, impact_score |-> 0],
   [Title |-> "c3", Link |-> "y3", cleaned |-> {"bank"}, operational_tag |-> {"economic"},
    sentiment_score |-> 3, impact_score |-> 0],
   [Title |-> "c4", Link |-> "y4", cleaned |-> {"drug"}, operational_tag |-> {"health"},
    sentiment_score |-> 3, impact_score |-> -2]}

\* analyze_stock_market for every kind of focus: all, mapped, not mapped
InitSectors ==
  /\ SchedulerInit /\ StoreIdle
  /\ data_file = "ok"
  /\ df \in Corpora(SectorRows, MaxRows)
  /\ request \in [horizon : {"short"}, risk : {"moderate"},
                  focus_sector : {"all", "Bank", "Utility", "Other"}]
  /\ gazettes = <<>>
  /\ fresh \in {<<>>, Headlines}
  /\ response = NoResponse
SpecSectors == InitSectors /\ [][StockCall]_vars

(* ------------------------------ claims -------------------------------- *)
StartsReturned == \A t \in Starters : pc[t] = "idle"

\* C1: start() is idempotent under every interleaving of start() calls: each
\* of the three recurring jobs and the two startup one-off jobs is registered
\* at most once, and exactly once when the start() calls have returned.
C1_RegisteredExactlyOnce ==
  /\ \A id \in FixedIds : added[id] <= 1
  /\ (StartsReturned /\ \E t \in Starters : calls[t] > 0)
       => \A id \in FixedIds : added[id] = 1

Returned(t) == pc[t] = "idle" /\ calls[t] > 0
Registered(id) == \E i \in Insts : id \in DOMAIN jobs[i]

\* C2: a returned refresh_now() call that found the orchestrator not running
\* returned failure and added no job; one that found it running returned
\* success and added exactly two one-off jobs.
C2_RefreshNowContract ==
  \A t \in Refreshers :
    Returned(t) =>
      IF sawRunning[t] THEN result[t] = "True" /\ nadded[t] = 2
                       ELSE result[t] = "False" /\ nadded[t] = 0

\* C8: the id refresh_now() gives a one-off job differs from every id in the
\* registry, so no refresh_now() call ends in an id conflict.
C8_NoIdConflict == \A t \in Refreshers : result[t] # "ConflictingIdError"

\* C9: every one-off job that was stored and has not been handed to the
\* executor yet is still in the registry, waiting for its single firing: none
\* is dropped unfired, none is fired twice.
C9_OneOffFiresOnce == \A id \in DOMAIN owed : owed[id] = 1 /\ Registered(id)

Period(id) == jobs[scheduler][id].period
Failure == {"Invalid interval", "False"}
\* thread t takes the step
Steps(t) == pc'[t] # pc[t] \/ calls'[t] # calls[t]
JobIds == [i \in Insts |-> DOMAIN jobs[i]]

\* C3: set_interval(minutes) fails whenever minutes < 5 or the orchestrator
\* is not running; a call fails at its first step only, and that step leaves
\* the periods of both interval jobs and current_interval() unchanged.
C3_FailedSetIntervalChangesNothing ==
  /\ [](\A t \in Updaters :
          (Returned(t) /\ (arg[t] < MinInterval \/ ~sawRunning[t])) => result[t] \in Failure)
  /\ [][\A t \in Updaters :
          (Steps(t) /\ result'[t] \in Failure) =>
             /\ pc[t] = "idle"
             /\ jobs' = jobs
             /\ get_interval' = get_interval]_vars

\* a set_interval(3) and a set_interval on a stopped orchestrator have failed
\* while a set_interval(10) went through
C3_Witness ==
  /\ Returned("u1") /\ arg["u1"] = 3 /\ sawRunning["u1"] /\ result["u1"] = "Invalid interval"
  /\ Returned("u2") /\ arg["u2"] = 10 /\ ~sawRunning["u2"] /\ result["u2"] = "False"
  /\ running(scheduler)

\* C4: once all set_interval calls have returned, both interval jobs have the
\* same period and it equals current_interval().
C4_SetIntervalAtomic ==
  (running(scheduler) /\ \A t \in Updaters : pc[t] = "idle") =>
     /\ Period(PipelineId) = Period(MarketId)
     /\ Period(PipelineId) = get_interval

\* C5: no step of set_interval changes the set of job ids of the registry.
C5_SetIntervalKeepsJobIds ==
  [][\A t \in Updaters : Steps(t) => JobIds' = JobIds /\ pending' = pending]_vars

\* both interval jobs were rescheduled to 10 minutes while a startup one-off
\* was still in the registry
C5_Witness ==
  /\ pc["u1"] = "l55" /\ arg["u1"] = 10
  /\ running(scheduler)
  /\ Period(PipelineId) = 10 /\ Period(MarketId) = 10
  /\ Registered(StartupId)

Running(i, id) == Count(instances[i], id)

\* C6: a job whose action raises leaves the orchestrator running and the
\* registry as it was, and gives its instance slot back, so that job and every
\* other job are submitted again at their next due time; the recurring jobs
\* stay registered with a next run time.
C6_FailureIsolated ==
  /\ [](\A i \in Insts : state[i] = "running" =>
          \A id \in RecurringIds : id \in DOMAIN jobs[i] /\ jobs[i][id].next_run # NoTime)
  /\ [][\A i \in Insts : \A id \in DOMAIN instances[i] :
          JobDone(i, id, FALSE) =>
             /\ state' = state /\ jobs' = jobs /\ pending' = pending
             /\ scheduler' = scheduler
             /\ Running(i, id)' = Running(i, id) - 1
             /\ \A x \in DOMAIN instances[i] \ {id} : Running(i, x)' = Running(i, x)]_vars

\* pipeline_job raised, and its next firing is in progress
C6_Witness ==
  /\ lastFailed = PipelineId
  /\ running(scheduler)
  /\ Running(scheduler, PipelineId) = 1
  /\ jobs[scheduler][PipelineId].next_run > clock

\* C7: at most one execution of a periodic job id is in progress at any time
\* (a firing that is due while the previous one still runs is skipped).
C7_OneExecutionPerJobId ==
  \A i \in Insts : \A id \in RecurringIds : Running(i, id) <= 1

\* a firing of pipeline_job was skipped and the earlier one is still in progress
C7_Witness ==
  /\ PipelineId \in skipped
  /\ running(scheduler)
  /\ Running(scheduler, PipelineId) = 1

StartCompletes == pc["s1"] = "l36" /\ pc'["s1"] = "idle" /\ result'["s1"] = "started"
IntervalJobs == [id \in IntervalIds |-> IF running(scheduler) /\ id \in DOMAIN jobs[scheduler]
                                          THEN jobs[scheduler][id] ELSE <<>>]
RecurringRegistered ==
  /\ running(scheduler)
  /\ RecurringIds \subseteq DOMAIN jobs[scheduler]
  /\ \A id \in IntervalIds : /\ jobs[scheduler][id].trigger = "interval"
                             /\ Period(id) = get_interval
                             /\ Period(id) = DefaultInterval
  /\ jobs[scheduler][DailyId].trigger = "cron"

\* C10 as stated: when the first start() completes the registry holds the two
\* interval jobs, the cron job and both startup one-off jobs.
C10_RegistryAfterStart ==
  [][StartCompletes =>
       (RecurringRegistered /\ {StartupId, StartupMarketId} \subseteq DOMAIN jobs[scheduler])']_vars

\* C10 amended: when the first start() completes the registry holds the two
\* interval jobs with the shared period (15) and the cron job, and each startup
\* one-off job has been added once and is in the registry or already handed
\* to the executor; adding and firing the startup one-offs leaves period and
\* next_run of the interval jobs unchanged.
C10_StartupBurst ==
  /\ [][StartCompletes =>
          (/\ RecurringRegistered
           /\ \A id \in {StartupId, StartupMarketId} :
                /\ added[id] = 1
                /\ Registered(id) \/ id \notin DOMAIN owed)']_vars
  /\ [][(\/ pc["s1"] \in {"l35", "l36"} /\ pc'["s1"] # pc["s1"]
         \/ \E id \in {StartupId, StartupMarketId} :
              \/ Registered(id) /\ ~Registered(id)'
              \/ \E i \in Insts : Running(i, id) # Running(i, id)')
        => IntervalJobs' = IntervalJobs]_vars

\* start() has returned, startup_job was fired before it did, and the
\* interval jobs wait for their first run one period after the start
C10_Witness ==
  /\ result["s1"] = "started" /\ pc["s1"] = "idle"
  /\ ~Registered(StartupId) /\ StartupId \notin DOMAIN owed
  /\ Registered(StartupMarketId)
  /\ \A id \in IntervalIds : jobs[scheduler][id].next_run = StartClock + DefaultInterval

\* the running instances that hold a job under id
Holders(id) == {i \in Insts : state[i] = "running" /\ id \in DOMAIN jobs[i]}

\* C11: while the orchestrator is running, exactly one job is registered
\* under each of pipeline_job, market_data_job and daily_email_job, and the
\* daily job keeps its cron trigger.
C11_RecurringJobsKept ==
  running(scheduler) =>
    \A id \in RecurringIds :
      /\ Cardinality(Holders(id)) = 1
      /\ id \in DOMAIN jobs[scheduler]
      /\ id = DailyId => jobs[scheduler][id] = [CronJob("send_daily_reports") EXCEPT
                                                  !.next_run = jobs[scheduler][id].next_run]

\* C12: next_run_time() returns the next run time of pipeline_job when that
\* job is registered and "Unknown" otherwise (never started, or no
\* pipeline_job), and changes nothing of the orchestrator.
C12_NextRunTime ==
  [][\A t \in Getters :
       calls'[t] # calls[t] =>
         /\ result'[t] = IF Registered(PipelineId)
                           THEN ToString(jobs[scheduler][PipelineId].next_run)
                           ELSE "Unknown"
         /\ <<scheduler, current_interval, state, pending, jobs, instances>>'
              = <<scheduler, current_interval, state, pending, jobs, instances>>]_vars

\* the call was made after pipeline_job had fired once
C12_Witness ==
  /\ calls["g1"] > 0
  /\ result["g1"] = ToString(StartClock + 2 * DefaultInterval)

Reported == response # NoResponse /\ response.kind = "report"
Links(rows) == {rows[k].Link : k \in 1..Len(rows)}
Rows(rows) == {rows[k] : k \in 1..Len(rows)}
Matching(rows, keywords) == {r \in Rows(rows) : contains(r.cleaned, keywords)}

\* C13: the rows passed to the weighted sentiment and the risk classification
\* hold one row for each link of the selection: no two rows share a link.
C13_UniqueByLink ==
  Reported =>
    \A j, k \in 1..Len(response.relevant_df) :
      response.relevant_df[j].Link = response.relevant_df[k].Link => j = k

\* C14: the relevance filter applied to its own result, with the same
\* request, gives the same rows.
C14_FilterIdempotent ==
  Reported => relevant_rows(response.relevant_df, request) = response.relevant_df

\* rows of the sector, of the location from another sector and of the
\* description were selected, and filtering them again changed nothing
C14_Witness ==
  /\ Reported
  /\ request.sector = "energy" /\ request.location = "kandy"
  /\ request.description = <<"flood", "risk">>
  /\ Len(response.relevant_df) = 3
  /\ \E r \in Rows(response.relevant_df) : r.operational_tag = {"health"}
  /\ \E r \in Rows(response.relevant_df) : r.operational_tag = {"energy"}

\* C20: for a location other than "general", when some corpus row mentions a
\* location keyword every corpus row that does is in the result; for
\* "general" the location pass adds no row.
C20_LocationPass ==
  Reported =>
    /\ request.location # "general" =>
         Matching(df, loc_keywords(request.location)) \subseteq Rows(response.relevant_df)
    /\ request.location = "general" =>
         response.relevant_df = relevant_rows(df, [request EXCEPT !.location = "general"])

\* f[1] + ... + f[k]
RECURSIVE SumTo(_, _)
SumTo(f, k) == IF k = 0 THEN 0 ELSE f[k] + SumTo(f, k - 1)
Scored == response.relevant_df
NegImpact == SumTo([k \in 1..Len(Scored) |->
                      IF Scored[k].impact_score < 0 THEN Scored[k].impact_score ELSE 0],
                   Len(Scored))
\* 100 * Len(Scored) * normalized_risk
Risk100 == Abs(NegImpact) * (IF request.investment \in {"high", "very_high"} THEN 120 ELSE 100)

\* C15: normalized_risk is |sum of the negative impact scores| / number of
\* rows (0 for no rows), times 1.2 for a high or very high investment; the
\* level is High iff it is > 3.0, Medium iff it is > 1.5 and not > 3.0, else
\* Low: exactly 1.5 is Low and exactly 3.0 is Medium.
C15_RiskLevel ==
  Reported =>
    LET n == Len(Scored)
        risk == response.normalized_risk
    IN /\ risk[2] > 0
       /\ risk[1] * 100 * n = Risk100 * risk[2]
       /\ n = 0 => risk[1] = 0
       /\ response.risk_level = "High" <=> Risk100 > 300 * n
       /\ response.risk_level = "Medium" <=> (Risk100 > 150 * n /\ ~(Risk100 > 300 * n))
       /\ response.risk_level = "Low" <=> ~(Risk100 > 150 * n)
       /\ (n > 0 /\ Risk100 = 150 * n) => response.risk_level = "Low"
       /\ (n > 0 /\ Risk100 = 300 * n) => response.risk_level = "Medium"

\* impacts -5 and 0 with a high investment: 2.5 * 1.2 is exactly 3.0, Medium
C15_Witness ==
  /\ Reported
  /\ request.investment = "high"
  /\ Len(Scored) = 2
  /\ Risk100 = 300 * Len(Scored)
  /\ response.risk_level = "Medium"

Sentiments == [k \in 1..Len(Scored) |-> Scored[k].sentiment_score]
Weights == [k \in 1..Len(Scored) |-> 10 + Abs(Scored[k].impact_score)]

C17_DegradedReport ==
  (response # NoResponse /\ data_file # "ok") => response.kind = "report"

\* the entries of the report that follow the scraped ones
Fallback ==
  SubSeq(response.gazette_matches, Len(gazettes) + 1, Len(response.gazette_matches))
\* the keywords a fallback row must match besides a regulatory one
ActiveKeywords ==
  IF request.sector \in DOMAIN SECTOR_MAP THEN SECTOR_MAP[request.sector] ELSE {"economic"}
\* the corpus rows with a regulatory keyword and an active keyword
Regulatory ==
  {k \in 1..Len(df) : /\ df[k].cleaned \cap RegKeywords # {}
                      /\ df[k].cleaned \cap ActiveKeywords # {}}

Published == {Snapshot(v) : v \in 0..writer.version}

\* C18: a report call beside a refresh reads a complete snapshot, the one
\* visible before the refresh or the one after it, never a mixture or a part.
C18_CompleteSnapshot ==
  \A t \in Reporters :
    (readers[t].pc = "done" /\ Reported) =>
      /\ df \in Published
      /\ response.relevant_df \in Published
\* a read that a refresh overtook: it returned the snapshot it opened while
\* DATA_FILE already names the next one
C18_Witness ==
  /\ readers["q1"].pc = "done" /\ Reported
  /\ df = Snapshot(0)
  /\ request.sector = "energy"
  /\ path # readers["q1"].handle

\* the rows each pass selects from the corpus, and their union
SectorPass ==
  IF request.sector \in DOMAIN SECTOR_MAP
    THEN {r \in Rows(df) : \/ r.operational_tag \cap SECTOR_MAP[request.sector] # {}
                           \/ r.cleaned \cap SECTOR_MAP[request.sector] # {}}
    ELSE Rows(df)
LocationPass ==
  IF request.location = "general" THEN {}
  ELSE {r \in Rows(df) : r.cleaned \cap loc_keywords(request.location) # {}}
DescriptionPass ==
  {r \in Rows(df) : \E k \in 1..Len(request.description) :
                      Len(request.description[k]) > 4 /\ request.description[k] \in r.cleaned}
PassUnion == SectorPass \cup LocationPass \cup DescriptionPass

\* C21: the result is the union of the sector, location and description
\* passes when that union is non-empty and the rows tagged "economic" when it
\* is empty; it holds corpus rows only, each once.
C21_FilterUnion ==
  Reported =>
    /\ PassUnion # {} => Rows(response.relevant_df) = PassUnion
    /\ PassUnion = {} =>
         Rows(response.relevant_df) = {r \in Rows(df) : "economic" \in r.operational_tag}
    /\ Rows(response.relevant_df) \subseteq Rows(df)

\* the place of row i of the relevance subset when the highest (lowest)
\* sentiment comes first and rows of equal sentiment keep their order
RankHigh(i) ==
  1 + Cardinality({j \in 1..Len(Scored) :
                     \/ Scored[j].sentiment_score > Scored[i].sentiment_score
                     \/ Scored[j].sentiment_score = Scored[i].sentiment_score /\ j < i})
RankLow(i) ==
  1 + Cardinality({j \in 1..Len(Scored) :
                     \/ Scored[j].sentiment_score < Scored[i].sentiment_score
                     \/ Scored[j].sentiment_score = Scored[i].sentiment_score /\ j < i})
Listed == IF Len(Scored) < 5 THEN Len(Scored) ELSE 5

\* C22: opportunities are the titles of the (at most 5) rows of the relevance
\* subset with the highest sentiment and threats those with the lowest, rows
\* of equal sentiment in input order; each list has 1 to 5 entries and is the
\* placeholder exactly when the subset is empty.
C22_TopAndBottom ==
  Reported =>
    /\ Len(response.opportunities) \in 1..5
    /\ Len(response.threats) \in 1..5
    /\ (response.opportunities = <<"No specific data found.">>) <=> (Scored = <<>>)
    /\ (response.threats = <<"No specific data found.">>) <=> (Scored = <<>>)
    /\ Scored # <<>> =>
         /\ Len(response.opportunities) = Listed
         /\ Len(response.threats) = Listed
         /\ \A i \in 1..Len(Scored) :
              /\ RankHigh(i) <= 5 => response.opportunities[RankHigh(i)] = Scored[i].Title
              /\ RankLow(i) <= 5 => response.threats[RankLow(i)] = Scored[i].Title
\* six rows, two pairs of equal sentiment among them, five listed each way
C22_Witness ==
  /\ Reported
  /\ Len(Scored) = 6
  /\ response.opportunities = <<"r1", "r2", "r1", "r4", "r3">>
  /\ response.threats = <<"r4", "r3", "r3", "r1", "r2">>

\* the rows of the report that mention company c, by position
Mentions(c) ==
  {k \in 1..Len(response.rows) : response.rows[k].cleaned \cap CSE_COMPANIES[c].aliases # {}}
FirstMention(c) == response.rows[CHOOSE k \in Mentions(c) : \A j \in Mentions(c) : k <= j]
Entries(c) ==
  {k \in 1..Len(response.stock_picks) : response.stock_picks[k].ticker = CSE_COMPANIES[c].ticker}
ExpectedSignal(s) ==
  IF s > 1 THEN (IF request.risk = "conservative" /\ s < 4 THEN "Hold" ELSE "Buy")
  ELSE IF s < -1 THEN "Sell"
  ELSE "Hold"

\* C23: a company that some row mentions has one entry, made of the first
\* such row: Buy above 0.1, Sell below -0.1, else Hold, and for a
\* conservative profile a Buy below 0.4 is Hold; a company no row mentions
\* has no entry; the entries are in descending order of sentiment.
C23_EntitySignals ==
  Reported =>
    /\ \A c \in 1..Len(CSE_COMPANIES) :
         IF Mentions(c) = {} THEN Entries(c) = {}
         ELSE /\ Cardinality(Entries(c)) = 1
              /\ \A k \in Entries(c) :
                   /\ response.stock_picks[k].headline = FirstMention(c).Title
                   /\ response.stock_picks[k].sentiment = 10 * FirstMention(c).sentiment_score
                   /\ response.stock_picks[k].signal = ExpectedSignal(FirstMention(c).sentiment_score)
    /\ \A a, b \in 1..Len(response.stock_picks) :
         a < b => response.stock_picks[a].sentiment >= response.stock_picks[b].sentiment
\* a conservative profile: three companies, a kept Buy, a downgraded Buy and
\* a Sell, listed by sentiment
C23_Witness ==
  /\ Reported
  /\ request.risk = "conservative"
  /\ Len(response.stock_picks) = 3
  /\ [k \in 1..3 |-> response.stock_picks[k].ticker] = <<"SAMP", "JKH", "DIAL">>
  /\ [k \in 1..3 |-> response.stock_picks[k].signal] = <<"Buy", "Hold", "Sell">>
  /\ response.stock_picks[2].sentiment = 20

\* the rows scanned for events
Pool ==
  IF response.market_news # <<>> THEN response.market_news
  ELSE SubSeq(response.rows, 1, IF Len(response.rows) < 100 THEN Len(response.rows) ELSE 100)
\* the places in the table of the event keywords a row holds
Keywords(row) == {j \in 1..Len(event_keywords) : event_keywords[j].k \in row.cleaned}
FirstKeyword(row) == CHOOSE j \in Keywords(row) : \A i \in Keywords(row) : j <= i
\* the places in the pool of the rows with an event, and how many up to p
Hits == {p \in 1..Len(Pool) : Keywords(Pool[p]) # {}}
HitsTo(p) == Cardinality({q \in Hits : q <= p})

\* C24: the events are those of the first rows of the pool that hold an event
\* keyword, in pool order, one for each such row, named by the first keyword
\* of the table the row holds, and there are never more than 5; the pool is
\* the market news, or the first 100 rows when there is none.
C24_EventMentions ==
  Reported =>
    /\ Len(response.events) <= 5
    /\ Len(response.events) = (IF Cardinality(Hits) < 5 THEN Cardinality(Hits) ELSE 5)
    /\ \A p \in Hits :
         HitsTo(p) <= 5 =>
           /\ response.events[HitsTo(p)].title = Pool[p].Title
           /\ response.events[HitsTo(p)].type = event_keywords[FirstKeyword(Pool[p])].v
\* six rows with an event keyword, two keywords in the first: five events,
\* the first named by the earlier keyword
C24_Witness ==
  /\ Reported
  /\ Cardinality(Hits) = 6
  /\ Len(response.events) = 5
  /\ response.events[1] = [type |-> "Dividend Declared", title |-> "e1"]
  /\ response.events[2] = [type |-> "Earnings Report", title |-> "e3"]

\* the advisories listed, and whether a keyword occurs in the threat titles
Advised == {response.suggestions[k] : k \in 1..Len(response.suggestions)}
Threatens(keywords) == \E k \in 1..Len(request.threats) : request.threats[k] \cap keywords # {}
HighRiskAdvisories == {SUGGESTION_KB.high_risk[x] : x \in DOMAIN SUGGESTION_KB.high_risk}
RulesFired ==
  \/ request.risk_level = "High"
  \/ request.investment \in {"high", "very_high"} /\ request.risk_level # "Low"
  \/ request.target_market \in {"export", "mixed"}
  \/ Threatens({"inflation", "price", "tax", "vat", "strike", "protest", "import", "customs"})

\* C25: the advisories are never none and none is listed twice; each is
\* listed exactly under its condition, and the generic one exactly when no
\* rule fired.
C25_Advisories ==
  (response # NoResponse /\ response.kind = "suggestions") =>
    /\ response.suggestions # <<>>
    /\ Cardinality(Advised) = Len(response.suggestions)
    /\ (Advised \cap HighRiskAdvisories # {}) <=> (request.risk_level = "High")
    /\ (SUGGESTION_KB.high_investment \in Advised) <=>
         (request.investment \in {"high", "very_high"} /\ request.risk_level # "Low")
    /\ (SUGGESTION_KB.export_market \in Advised) <=> (request.target_market \in {"export", "mixed"})
    /\ (SUGGESTION_KB.domestic_market_low \in Advised) <=>
         (request.target_market = "domestic" /\ request.risk_level = "High")
    /\ (SUGGESTION_KB.inflation \in Advised) <=> Threatens({"inflation", "price"})
    /\ (SUGGESTION_KB.tax \in Advised) <=> Threatens({"tax", "vat"})
    /\ (SUGGESTION_KB.labor \in Advised) <=> Threatens({"strike", "protest"})
    /\ (SUGGESTION_KB.import \in Advised) <=> Threatens({"import", "customs"})
    /\ (Monitor \in Advised) <=> ~RulesFired
\* high risk, a large investment, the home market and two threat keywords:
\* five advisories
C25_Witness ==
  /\ response # NoResponse /\ response.kind = "suggestions"
  /\ request.risk_level = "High" /\ request.investment = "very_high"
  /\ request.target_market = "domestic"
  /\ Len(response.suggestions) = 5
  /\ response.suggestions[1] = SUGGESTION_KB.tax
  /\ SUGGESTION_KB.high_risk.energy \in Advised

\* the weighted sum and the sum of the weights of the market news, in tenths
MarketSum ==
  SumTo([k \in 1..Len(response.market_news) |->
           response.market_news[k].sentiment_score
             * (10 + (IF response.market_news[k].impact_score < 0
                        THEN -response.market_news[k].impact_score
                        ELSE response.market_news[k].impact_score))],
        Len(response.market_news))
MarketWeight ==
  SumTo([k \in 1..Len(response.market_news) |->
           10 + (IF response.market_news[k].impact_score < 0
                   THEN -response.market_news[k].impact_score
                   ELSE response.market_news[k].impact_score)],
        Len(response.market_news))

\* C26: the recommended action is Accumulate exactly for a market sentiment
\* above 0.1, Stay Cash exactly for one below -0.2 and Hold otherwise, 0.1
\* and -0.2 themselves included.
C26_RecommendedAction ==
  Reported =>
    /\ response.recommended_action \in {"Accumulate", "Stay Cash", "Hold"}
    /\ (response.recommended_action = "Accumulate") <=> (MarketSum > MarketWeight)
    /\ (response.recommended_action = "Stay Cash") <=> (MarketSum < -2 * MarketWeight)
    /\ (response.recommended_action = "Hold") <=>
         (MarketSum <= MarketWeight /\ MarketSum >= -2 * MarketWeight)
\* market news of several rows whose weighted sentiment is exactly 0.1: Hold
C26_Witness ==
  /\ Reported
  /\ Len(response.market_news) = 3
  /\ MarketWeight > 30
  /\ MarketSum = MarketWeight
  /\ response.recommended_action = "Hold"

\* the sectors in scope for the focus of the request
InScope ==
  IF request.focus_sector = "all" THEN DOMAIN SECTOR_MAP
  ELSE IF request.focus_sector \in DOMAIN STOCK_SECTOR_MAPPING
         THEN {STOCK_SECTOR_MAPPING[request.focus_sector]}
         ELSE {}
\* the weighted sum and the sum of the weights of the rows of sector x
InSector(k, x) == response.rows[k].operational_tag \cap SECTOR_MAP[x] # {}
SectorSum(x) ==
  SumTo([k \in 1..Len(response.rows) |->
           IF InSector(k, x)
             THEN response.rows[k].sentiment_score * (10 + Abs(response.rows[k].impact_score))
             ELSE 0],
        Len(response.rows))
SectorWeight(x) ==
  SumTo([k \in 1..Len(response.rows) |->
           IF InSector(k, x) THEN 10 + Abs(response.rows[k].impact_score) ELSE 0],
        Len(response.rows))
\* the weighted sentiment of sector x as <<numerator, denominator>>, in tenths
SectorScore(x) == IF SectorWeight(x) = 0 THEN <<0, 1>> ELSE <<SectorSum(x), SectorWeight(x)>>
\* the entry of sector x, and whether sector x has a score no other has above
EntriesOf(x) ==
  {k \in 1..Len(response.sector_performance) : response.sector_performance[k].sector = title(x)}
Maximal(x) ==
  \A y \in InScope : SectorScore(x)[1] * SectorScore(y)[2] >= SectorScore(y)[1] * SectorScore(x)[2]
ScopeAndTop ==
  /\ Len(response.sector_performance) = Cardinality(InScope)
  /\ \A x \in InScope : Cardinality(EntriesOf(x)) = 1
  /\ (response.top_sector = "N/A") <=> (InScope = {})
  /\ InScope # {} => \E x \in InScope : response.top_sector = title(x) /\ Maximal(x)

RECURSIVE SumOver(_, _)
SumOver(f, S) ==
  IF S = {} THEN 0
  ELSE LET x == CHOOSE y \in S : TRUE IN f[x] + SumOver(f, S \ {x})
\* the executions in progress, in every scheduler instance, of the jobs whose
\* id has one of the given names
InProgress(names) ==
  SumOver([i \in Insts |->
             SumOver(instances[i], {id \in DOMAIN instances[i] : id[1] \in names})],
          Insts)

\* C28: at most one execution of run_pipeline is in progress at any time,
\* whichever of pipeline_job, startup_job and the manual_refresh jobs runs
\* it, and at most one of update_market_data likewise.
C28_OneRefreshAtATime ==
  /\ InProgress({"pipeline_job", "startup_job", "manual_refresh"}) <= 1
  /\ InProgress({"market_data_job", "startup_market_job", "manual_market_refresh"}) <= 1

====
